---------------------------- MODULE Spec2Model ----------------------------
(***************************************************************************)
(* Model of the simulation core of tanx-game: World (height field,         *)
(* buildings, collapse scheduling), Tank, Game (ballistics, damage) and    *)
(* GameSession (turn state machine).                                       *)
(*                                                                         *)
(* Python floats are modelled as fixed-point integers in units of 1/Scale  *)
(* (milli-units): 12.0 is 12000.  Integer quantities of the program (tank  *)
(* x, y, hp, floor hp, column and sub-cell indexes) stay plain integers.   *)
(***************************************************************************)
EXTENDS Integers, Sequences, FiniteSets, TLC

VARIABLES
    settings,           \* TerrainSettings of the world (width, height, ...)
    height_map,         \* World.height_map: sub-cell index -> elevation (milli)
    buildings,          \* World.buildings: sequence of Building records
    rubble_segments,    \* World.rubble_segments: sequence of RubbleSegment records
    pending_collapses,  \* World._pending_collapses: sequence of building indexes
    tanks,              \* Game.tanks: sequence of the two Tank records
    game,               \* Game.gravity and Game.damage
    session,            \* GameSession fields
    last                \* what the last operation was called with and returned

vars == <<settings, height_map, buildings, rubble_segments, pending_collapses,
          tanks, game, session, last>>

-----------------------------------------------------------------------------
(* Fixed-point arithmetic                                                  *)

Scale == 1000

Max(a, b) == IF a >= b THEN a ELSE b
Min(a, b) == IF a <= b THEN a ELSE b
Abs(a) == IF a >= 0 THEN a ELSE -a

\* Python int(): truncation toward zero of n/d (d > 0).
Trunc(n, d) == IF n >= 0 THEN n \div d ELSE -((-n) \div d)

\* Python math.floor() of n/d (d > 0).
Floor(n, d) == n \div d

\* Python round() to an integer of n/d (d > 0): half to even.
RoundHalfEven(n, d) ==
    LET q == n \div d
        r == n % d
    IN  IF 2 * r < d THEN q
        ELSE IF 2 * r > d THEN q + 1
        ELSE IF q % 2 = 0 THEN q ELSE q + 1

\* math.cos at multiples of 15 degrees, in milli-units.
CosTable == <<1000, 966, 866, 707, 500, 259, 0, -259, -500, -707, -866, -966, -1000>>

\* math.cos((num / den) * math.pi) for 0 <= num <= den, in milli-units:
\* the table, linearly interpolated.
CosPi(num, den) ==
    LET i == (12 * num) \div den
        f == (12 * num) % den
    IN  IF i >= 12 THEN CosTable[13]
        ELSE CosTable[i + 1] + ((CosTable[i + 2] - CosTable[i + 1]) * f) \div den

\* math.cos / math.sin of a turret angle in whole degrees in -90..90, in
\* milli-units: the table at the multiples of 15, interpolated between them.
CosDeg(a) == CosPi(Abs(a), 180)
SinDeg(a) == IF a >= 0 THEN CosPi(90 - a, 180) ELSE -CosPi(90 + a, 180)

-----------------------------------------------------------------------------
(* Optional values: None is the empty tuple, Some(v) a one-element tuple.  *)

None == <<>>
Some(v) == <<v>>
IsNone(o) == Len(o) = 0
Val(o) == o[1]

-----------------------------------------------------------------------------
(* World: terrain                                                          *)

GridWidth(st) == st.width * st.detail

\* World.is_inside
IsInside(st, x, y) == 0 <= x /\ x < st.width /\ 0 <= y /\ y < st.height

\* World.is_solid: the sub-cell at (x + 0.5) * detail against the cell centre.
IsSolid(hm, st, x, y) ==
    IF ~IsInside(st, x, y) THEN FALSE
    ELSE LET center_y == y * Scale + Scale \div 2
             hx == Min(GridWidth(st) - 1,
                       Max(0, Trunc((2 * x + 1) * st.detail, 2)))
         IN  center_y >= hm[hx]

\* World.highest_solid: floor of the sub-cell at x * detail.
HighestSolid(hm, st, x) ==
    IF ~(0 <= x /\ x < st.width) THEN None
    ELSE LET hx == Min(GridWidth(st) - 1, Max(0, x * st.detail))
         IN  Some(Floor(hm[hx], Scale))

\* World.surface_y
SurfaceY(hm, st, x) ==
    LET top == HighestSolid(hm, st, x)
    IN  IF IsNone(top) THEN None ELSE Some(Max(0, Val(top) - 1))

\* min and max of the values of a list over the indexes S.
MinOver(hm, S) == CHOOSE v \in {hm[i] : i \in S} : \A i \in S : hm[i] >= v
MaxOver(hm, S) == CHOOSE v \in {hm[i] : i \in S} : \A i \in S : hm[i] <= v

\* A Python list as a function on 0..(n - 1), every element computed once
\* when the list is built (f @@ f is f, tabulated).
ListOf(f) == f @@ f

\* World._smooth_heights, one iteration: the 4-tap kernel over temp, indexes
\* clamped to the span, the result clamped to [min_height, max_height].
SmoothOnce(temp, st, start, end) ==
    ListOf([hx \in DOMAIN temp |->
        IF hx < start \/ hx > end THEN temp[hx]
        ELSE LET idx(offset) == Min(Max(start, hx + offset), end)
                 accum == temp[idx(-2)] * 15 + temp[idx(-1)] * 35
                          + temp[idx(0)] * 35 + temp[idx(1)] * 15
                 weight == 15 + 35 + 35 + 15
             IN  Max(st.min_height, Min(st.max_height, accum \div weight))])

RECURSIVE SmoothIter(_, _, _, _, _)
SmoothIter(hm, st, start, end, iterations) ==
    IF iterations = 0 THEN hm
    ELSE (CHOOSE the \in { SmoothIter(temp, st, start, end, iterations - 1) :
                      temp \in {SmoothOnce(hm, st, start, end)} } : TRUE)

\* World._smooth_heights
SmoothHeights(hm, st, start, end, iterations) ==
    IF start >= end THEN hm ELSE SmoothIter(hm, st, start, end, iterations)

\* carve_circle: first and last sub-cell of the affected span.
CarveStart(st, cx, radius) ==
    Max(0, Trunc((10 * cx - 18 * radius) * st.detail, 10 * Scale))
CarveEnd(st, cx, radius) ==
    Min(GridWidth(st) - 1, Trunc((10 * cx + 18 * radius) * st.detail, 10 * Scale))

\* carve_circle: distance of sub-cell hx from the centre (x_world = hx / detail).
CarveDist(st, hx, cx) == Abs((hx * Scale) \div st.detail - cx)

\* carve_circle: the crater floor target of a bowl cell.
BowlTarget(cy, radius, dist) ==
    LET crater_depth == (radius * 7) \div 10
        profile == (CosPi(dist, radius) + Scale) \div 2
    IN  cy + (profile * crater_depth) \div Scale

\* A rim that rises by the whole crater depth instead of a fifth of it.
RimHeightWholeDepth(radius, dist) ==
    LET crater_depth == (radius * 7) \div 10
        rim_span == (radius * 6) \div 10
        rim_t == Scale - ((dist - radius) * Scale) \div rim_span
    IN  (rim_t * crater_depth) \div Scale

\* carve_circle: the rim elevation of a cell between radius and 1.6 * radius.
RimHeight(radius, dist) ==
    LET crater_depth == (radius * 7) \div 10
        rim_span == (radius * 6) \div 10
        rim_t == Scale - ((dist - radius) * Scale) \div rim_span
    IN  (rim_t * ((crater_depth * 2) \div 10)) \div Scale

\* carve_circle: the loop body for sub-cell hx.
CarveCell(hm, st, hx, cx, cy, radius) ==
    LET dist == CarveDist(st, hx, cx)
        current == hm[hx]
    IN  IF 10 * dist > 18 * radius THEN current
        ELSE IF dist <= radius
             THEN Max(current, Min((st.height - 1) * Scale, BowlTarget(cy, radius, dist)))
        ELSE IF 10 * dist <= 16 * radius
             THEN Max(st.min_height, current - RimHeight(radius, dist))
        ELSE current

\* World.carve_circle
CarveCircle(hm, st, cx, cy, radius) ==
    IF radius <= 0 THEN hm
    ELSE LET start == CarveStart(st, cx, radius)
             end == CarveEnd(st, cx, radius)
         IN  IF start > end THEN hm
             ELSE (CHOOSE the \in { SmoothHeights(carved, st, start, end, 4) :
                     carved \in { ListOf([hx \in DOMAIN hm |->
                                      IF hx >= start /\ hx <= end
                                      THEN CarveCell(hm, st, hx, cx, cy, radius)
                                      ELSE hm[hx]]) } } : TRUE)


-----------------------------------------------------------------------------
(* World: buildings and rubble                                             *)
(*                                                                         *)
(* A Building is [left, right, base, floors, unstable, collapsed,          *)
(* collapse_timer]; floors is the sequence of BuildingFloor records        *)
(* [height, max_hp, hp, destroyed], ground floor first: the floor the code *)
(* indexes i is floors[i + 1].  Buildings are named by their position in   *)
(* World.buildings (1-based), 0 standing for no building.                  *)

\* A BuildingFloor.damage that takes the amount off without the floor at 0.
FloorDamageUnclamped(floor, amount) ==
    LET hp == floor.hp - amount
    IN  [floor EXCEPT !.hp = hp,
                      !.destroyed = IF hp <= 0 THEN TRUE ELSE floor.destroyed]

\* BuildingFloor.damage
FloorDamage(floor, amount) ==
    LET hp == Max(0, floor.hp - amount)
    IN  [floor EXCEPT !.hp = hp,
                      !.destroyed = IF hp = 0 THEN TRUE ELSE floor.destroyed]

\* Building.first_intact_floor_index: the 0-based index, -1 for None.
FirstIntactFloorIndex(b) ==
    IF \A i \in 1..Len(b.floors) : b.floors[i].destroyed THEN -1
    ELSE (CHOOSE i \in 1..Len(b.floors) :
              /\ ~b.floors[i].destroyed
              /\ \A j \in 1..(i - 1) : b.floors[j].destroyed) - 1

\* Building.floor_bounds / the running floor_bottom of building_hit_test:
\* the bottom of 0-based floor idx.
RECURSIVE FloorBottom(_, _)
FloorBottom(b, idx) ==
    IF idx = 0 THEN b.base ELSE FloorBottom(b, idx - 1) - b.floors[idx].height

\* World.building_hit_test for one building: the 0-based index of the first
\* floor, from the ground up, that is not destroyed and whose bounds (with
\* the 0.05 tolerance) hold y; -1 when there is none.
FloorHit(b, y) ==
    LET hits == { idx \in 0..(Len(b.floors) - 1) :
                    /\ ~b.floors[idx + 1].destroyed
                    /\ LET floor_bottom == FloorBottom(b, idx)
                           floor_top == floor_bottom - b.floors[idx + 1].height
                           top_y == Min(floor_top, floor_bottom)
                           bottom_y == Max(floor_top, floor_bottom)
                       IN  top_y - 50 <= y /\ y <= bottom_y + 50 }
    IN  IF hits = {} THEN -1
        ELSE CHOOSE idx \in hits : \A other \in hits : idx <= other

\* World.building_hit_test: <<building, floor index>> of the first building
\* in list order with a hit floor, <<0, -1>> for None.
BuildingHitTest(bs, x, y) ==
    LET cands == { k \in 1..Len(bs) :
                     /\ ~bs[k].collapsed
                     /\ ~(x < bs[k].left - 150 \/ x > bs[k].right + 150)
                     /\ FloorHit(bs[k], y) >= 0 }
    IN  IF cands = {} THEN <<0, -1>>
        ELSE LET k == CHOOSE c \in cands : \A other \in cands : c <= other
             IN  <<k, FloorHit(bs[k], y)>>

\* A schedule_building_collapse that appends the building whether or not
\* it is pending already.
ScheduleAgain(bs, pending, k, delay) ==
    IF bs[k].collapsed THEN <<bs, pending>>
    ELSE << [bs EXCEPT ![k].unstable = TRUE,
                       ![k].collapse_timer = Max(0, delay)],
            Append(pending, k) >>

\* World.schedule_building_collapse: the buildings and the pending list after.
ScheduleBuildingCollapse(bs, pending, k, delay) ==
    IF bs[k].collapsed THEN <<bs, pending>>
    ELSE << [bs EXCEPT ![k].unstable = TRUE,
                       ![k].collapse_timer = Max(0, delay)],
            IF \E i \in 1..Len(pending) : pending[i] = k
            THEN pending ELSE Append(pending, k) >>

\* World.rubble_hit_test: the first rubble segment that is not destroyed and
\* holds the point, 0 for None.
RubbleHitTest(rs, x, y) ==
    LET cands == { k \in 1..Len(rs) :
                     /\ ~rs[k].destroyed
                     /\ rs[k].left <= x /\ x <= rs[k].right
                     /\ rs[k].base - rs[k].height <= y /\ y <= rs[k].base }
    IN  IF cands = {} THEN 0
        ELSE CHOOSE c \in cands : \A other \in cands : c <= other

\* World.damage_rubble
DamageRubble(rs, k, amount) ==
    LET hp == Max(0, rs[k].hp - amount)
    IN  [rs EXCEPT ![k].hp = hp,
                   ![k].destroyed = IF hp = 0 THEN TRUE ELSE rs[k].destroyed]

\* World.is_column_blocked: a standing building, or with include_rubble a
\* rubble segment that is not destroyed, covers the centre of column x.
IsColumnBlocked(bs, rs, x, include_rubble) ==
    LET centre == x * Scale + Scale \div 2
    IN  \/ \E k \in 1..Len(bs) :
              ~bs[k].collapsed /\ bs[k].left <= centre /\ centre <= bs[k].right
        \/ /\ include_rubble
           /\ \E k \in 1..Len(rs) :
                  ~rs[k].destroyed /\ rs[k].left <= centre /\ centre <= rs[k].right

-----------------------------------------------------------------------------
(* Tank: [x, y, facing, hp, turret_angle, shot_power, super_power,         *)
(* last_command].  Tanks are named by their position in Game.tanks         *)
(* (1-based), 0 standing for no tank.                                      *)

min_angle == -75
max_angle == 75
move_distance == 1
min_power == 400
max_power == 1800
power_step == 100

\* Tank.clamp_turret
ClampTurret(angle) == Max(min_angle, Min(max_angle, angle))

\* Tank.raise_turret
RaiseTurret(tank, amount) ==
    [tank EXCEPT !.turret_angle = ClampTurret(tank.turret_angle + amount),
                 !.last_command = "turret +"]

\* Tank.lower_turret
LowerTurret(tank, amount) ==
    [tank EXCEPT !.turret_angle = ClampTurret(tank.turret_angle - amount),
                 !.last_command = "turret -"]

\* Tank.increase_power
IncreasePower(tank, step) ==
    [tank EXCEPT !.shot_power = Min(max_power, tank.shot_power + step),
                 !.last_command = "power +"]

\* Tank.decrease_power
DecreasePower(tank, step) ==
    [tank EXCEPT !.shot_power = Max(min_power, tank.shot_power - step),
                 !.last_command = "power -"]

\* Tank.stand_y
StandY(hm, st, x) == SurfaceY(hm, st, x)

\* A move that forgets the one-row limit on the step in height.
TankMoveAnyHeight(tank, hm, st, bs, rs, direction) ==
    LET target_x == tank.x + direction * move_distance
        surface == SurfaceY(hm, st, target_x)
    IN  IF ~(0 <= target_x /\ target_x < st.width) THEN <<FALSE, tank>>
        ELSE IF IsColumnBlocked(bs, rs, target_x, FALSE) THEN <<FALSE, tank>>
        ELSE <<TRUE, [tank EXCEPT !.x = target_x, !.y = Val(surface),
                                  !.last_command =
                                      IF direction < 0 THEN "left" ELSE "right"]>>

\* Tank.move: <<returned bool, tank after>>.
TankMove(tank, hm, st, bs, rs, direction) ==
    LET target_x == tank.x + direction * move_distance
        surface == StandY(hm, st, target_x)
    IN  IF ~(0 <= target_x /\ target_x < st.width) THEN <<FALSE, tank>>
        ELSE IF IsColumnBlocked(bs, rs, target_x, FALSE) THEN <<FALSE, tank>>
        ELSE IF IsNone(surface) \/ Val(surface) < 0 THEN <<FALSE, tank>>
        ELSE IF Abs(Val(surface) - tank.y) > 1 THEN <<FALSE, tank>>
        ELSE <<TRUE, [tank EXCEPT !.x = target_x, !.y = Val(surface),
                                  !.last_command =
                                      IF direction < 0 THEN "left" ELSE "right"]>>

\* Damage that is not floored at 0.
TakeDamageUnfloored(tank, amount) == [tank EXCEPT !.hp = tank.hp - amount]

\* Tank.take_damage
TakeDamage(tank, amount) == [tank EXCEPT !.hp = Max(0, tank.hp - amount)]

\* Tank.alive
Alive(tank) == tank.hp > 0

\* Tank.add_super_power
AddSuperPower(tank, amount) ==
    [tank EXCEPT !.super_power = Max(0, Min(Scale, tank.super_power + amount))]

-----------------------------------------------------------------------------
(* Game: ballistics and damage.  The game variable holds Game.gravity and  *)
(* Game.damage; the other attributes are never assigned after __init__.    *)

projectile_speed == 6500
explosion_radius == 1800
projectile_time_step == 100
max_projectile_steps == 360

\* Game.__init__: the attributes a match can differ in.
NewGame == [gravity |-> 350, damage |-> 25]

\* The product of two fixed-point numbers.
FMul(a, b) == Trunc(a * b, Scale)

\* floor(sqrt(n)) for n >= 0, by bisection on lo..hi.
RECURSIVE SqrtIn(_, _, _)
SqrtIn(n, lo, hi) ==
    IF lo >= hi THEN lo
    ELSE LET mid == (lo + hi + 1) \div 2
         IN  IF mid * mid <= n THEN SqrtIn(n, mid, hi) ELSE SqrtIn(n, lo, mid - 1)

\* math.hypot(dx, dy) in milli-units.
Hypot(dx, dy) == SqrtIn(dx * dx + dy * dy, 0, 46000)

\* ShotResult
ShotResult(hit_tank, impact, path, hit_building, hit_floor, hit_rubble) ==
    [hit_tank |-> hit_tank, impact |-> impact, path |-> path,
     fatal_hit |-> FALSE, fatal_tank |-> 0,
     hit_building |-> hit_building, hit_building_floor |-> hit_floor,
     hit_rubble |-> hit_rubble]

\* step_projectile: the first tank in list order that is alive, is not the
\* shooter and is within 0.6 of (x, y) in both axes; 0 for None.
TankAt(ts, shooter, x, y) ==
    LET near == { t \in 1..Len(ts) :
                    /\ Alive(ts[t]) /\ t # shooter
                    /\ Abs(ts[t].x * Scale - x) <= 600
                    /\ Abs(ts[t].y * Scale - y) <= 600 }
    IN  IF near = {} THEN 0 ELSE CHOOSE t \in near : \A other \in near : t <= other

\* step_projectile: what the point (x, y) of a step hits, tested in the
\* order of the loop body: building, rubble, tank, terrain.  The answer is
\* <<building, floor, rubble, tank, stop>>.
HitAtTankFirst(w, shooter, x, y) ==
    LET building_hit == BuildingHitTest(w.bs, x, y)
        rubble_hit == RubbleHitTest(w.rs, x, y)
        hit_tank == TankAt(w.ts, shooter, x, y)
    IN  IF hit_tank # 0 THEN <<0, -1, 0, hit_tank, TRUE>>
        ELSE IF building_hit[1] # 0
        THEN <<building_hit[1], building_hit[2], 0, 0, TRUE>>
        ELSE IF rubble_hit # 0 THEN <<0, -1, rubble_hit, 0, TRUE>>
        ELSE <<0, -1, 0, 0,
               IsSolid(w.hm, w.st, RoundHalfEven(x, Scale), RoundHalfEven(y, Scale))>>

HitAt(w, shooter, x, y) ==
    LET ix == RoundHalfEven(x, Scale)
        iy == RoundHalfEven(y, Scale)
        building_hit == BuildingHitTest(w.bs, x, y)
        rubble_hit == RubbleHitTest(w.rs, x, y)
        hit_tank == TankAt(w.ts, shooter, x, y)
    IN  IF building_hit[1] # 0
        THEN <<building_hit[1], building_hit[2], 0, 0, TRUE>>
        ELSE IF rubble_hit # 0 THEN <<0, -1, rubble_hit, 0, TRUE>>
        ELSE IF hit_tank # 0 THEN <<0, -1, 0, hit_tank, TRUE>>
        ELSE <<0, -1, 0, 0, IsSolid(w.hm, w.st, ix, iy)>>

\* An iteration of the loop that leaves the point of a hit out of the path.
FlyStepHitUnrecorded(w, shooter, vx, s) ==
    LET dt == projectile_time_step
        x == s.x + FMul(vx, dt)
        y == s.y + FMul(s.vy, dt)
        vy == s.vy + FMul(w.gravity, dt)
        out == x < 0 \/ x >= w.st.width * Scale \/ y >= w.st.height * Scale
        hit == IF out \/ y < 0 THEN <<0, -1, 0, 0, FALSE>> ELSE HitAt(w, shooter, x, y)
    IN  [x |-> x, y |-> y, vy |-> vy,
         path |-> IF hit[5] THEN s.path ELSE Append(s.path, <<x, y>>),
         stop |-> out \/ hit[5], hit |-> hit]

\* step_projectile: one iteration of the integration loop on the loop state
\* s = [x, y, vy, path, stop, hit]; hit is HitAt's tuple at the break.
FlyStep(w, shooter, vx, s) ==
    LET dt == projectile_time_step
        x == s.x + FMul(vx, dt)
        y == s.y + FMul(s.vy, dt)
        vy == s.vy + FMul(w.gravity, dt)
        path == Append(s.path, <<x, y>>)
        out == x < 0 \/ x >= w.st.width * Scale \/ y >= w.st.height * Scale
        hit == IF out \/ y < 0 THEN <<0, -1, 0, 0, FALSE>> ELSE HitAt(w, shooter, x, y)
    IN  [x |-> x, y |-> y, vy |-> vy, path |-> path,
         stop |-> out \/ hit[5], hit |-> hit]

\* The one element of a singleton set: { F(v) : v \in {e} } has e computed
\* once before F is applied to it.

\* step_projectile: the integration loop, n iterations left, run as its first
\* half and then its second half from where the first stopped; an iteration
\* after the break is never run.
RECURSIVE Fly(_, _, _, _, _)
Fly(w, shooter, vx, s, n) ==
    IF n = 0 \/ s.stop THEN s
    ELSE IF n = 1 THEN FlyStep(w, shooter, vx, s)
    ELSE (CHOOSE the \in { Fly(w, shooter, vx, mid, n - n \div 2) :
                      mid \in {Fly(w, shooter, vx, s, n \div 2)} } : TRUE)

\* Game.step_projectile with apply_effects = False: the ShotResult.  w is the
\* world and game state [st, hm, bs, rs, pending, ts, gravity, damage].
StepProjectile(w, shooter) ==
    LET tank == w.ts[shooter]
        direction == tank.facing
        speed == FMul(projectile_speed, tank.shot_power)
        vx == FMul(CosDeg(tank.turret_angle), speed) * direction
        vy == -FMul(SinDeg(tank.turret_angle), speed)
        x == tank.x * Scale + 500 + direction * 600
        y == tank.y * Scale - 500
        start == [x |-> x, y |-> y, vy |-> vy, path |-> <<>>, stop |-> FALSE,
                  hit |-> <<0, -1, 0, 0, FALSE>>]
    IN  (CHOOSE the \in { IF s.hit[5]
                 THEN ShotResult(s.hit[4], Some(<<s.x, s.y>>), s.path,
                                 s.hit[1], s.hit[2], s.hit[3])
                 ELSE ShotResult(0, None, s.path, 0, -1, 0) :
                     s \in {Fly(w, shooter, vx, start, max_projectile_steps)} } : TRUE)

\* Game.settle_tank: the fall to the first solid row, n rows then the snap to
\* the surface when that is higher.
RECURSIVE FallY(_, _, _, _)
FallY(hm, st, x, y) ==
    IF y + 1 < st.height /\ ~IsSolid(hm, st, x, y + 1)
    THEN FallY(hm, st, x, y + 1) ELSE y

SettleTank(hm, st, tank) ==
    LET y == FallY(hm, st, tank.x, tank.y)
        surface == SurfaceY(hm, st, tank.x)
    IN  IF IsNone(surface) THEN [tank EXCEPT !.y = y]
        ELSE IF Val(surface) < 0 THEN [tank EXCEPT !.y = 0]
        ELSE IF Val(surface) < y THEN [tank EXCEPT !.y = Val(surface)]
        ELSE [tank EXCEPT !.y = y]

\* The loop "for tank in self.tanks: if tank.alive: self.settle_tank(tank)".
SettleAll(hm, st, ts) ==
    [t \in DOMAIN ts |-> IF Alive(ts[t]) THEN SettleTank(hm, st, ts[t]) ELSE ts[t]]

\* An _apply_building_damage that leaves the floors above a destroyed floor
\* as they are.
ApplyBuildingDamageNoCascade(bs, pending, dmg, k, floor_idx) ==
    IF k = 0 \/ floor_idx < 0 THEN <<bs, pending>>
    ELSE IF ~(0 <= floor_idx /\ floor_idx < Len(bs[k].floors)) THEN <<bs, pending>>
    ELSE IF bs[k].floors[floor_idx + 1].destroyed THEN <<bs, pending>>
    ELSE
    LET hit == FloorDamage(bs[k].floors[floor_idx + 1], dmg)
        bs2 == [bs EXCEPT ![k].floors[floor_idx + 1] = hit]
        intact_remaining == FirstIntactFloorIndex(bs2[k])
    IN  IF ~hit.destroyed THEN <<bs2, pending>>
        ELSE IF intact_remaining = -1
        THEN ScheduleBuildingCollapse(bs2, pending, k, 800)
        ELSE IF floor_idx <= intact_remaining
        THEN LET bs3 == [bs2 EXCEPT ![k].unstable = TRUE]
             IN  IF floor_idx = 0
                 THEN ScheduleBuildingCollapse(bs3, pending, k, 1200)
                 ELSE <<bs3, pending>>
        ELSE <<bs2, pending>>

\* Game._apply_building_damage: <<buildings, pending collapses>> after.
ApplyBuildingDamage(bs, pending, dmg, k, floor_idx) ==
    IF k = 0 \/ floor_idx < 0 THEN <<bs, pending>>
    ELSE IF ~(0 <= floor_idx /\ floor_idx < Len(bs[k].floors)) THEN <<bs, pending>>
    ELSE IF bs[k].floors[floor_idx + 1].destroyed THEN <<bs, pending>>
    ELSE
    LET hit == FloorDamage(bs[k].floors[floor_idx + 1], dmg)
        nfloors == Len(bs[k].floors)
        floors1 == [bs[k].floors EXCEPT ![floor_idx + 1] = hit]
        \* the floors above a destroyed floor lose their support
        floors2 == IF hit.destroyed /\ floor_idx < nfloors - 1
                   THEN [i \in 1..nfloors |->
                            IF i > floor_idx + 1 /\ ~floors1[i].destroyed
                            THEN [floors1[i] EXCEPT !.hp = 0, !.destroyed = TRUE]
                            ELSE floors1[i]]
                   ELSE floors1
        bs2 == [bs EXCEPT ![k].floors = floors2]
        intact_remaining == FirstIntactFloorIndex(bs2[k])
    IN  IF ~hit.destroyed THEN <<bs2, pending>>
        ELSE IF intact_remaining = -1
        THEN ScheduleBuildingCollapse(bs2, pending, k, 800)
        ELSE IF floor_idx <= intact_remaining
        THEN LET bs3 == [bs2 EXCEPT ![k].unstable = TRUE]
             IN  IF floor_idx = 0
                 THEN ScheduleBuildingCollapse(bs3, pending, k, 1200)
                 ELSE <<bs3, pending>>
        ELSE <<bs2, pending>>

\* A splash without falloff: every living tank within the radius takes the
\* full damage.
SplashTankFullDamage(tank, dmg, impact_x, impact_y) ==
    LET max_distance == explosion_radius
        dx == tank.x * Scale - impact_x
        dy == tank.y * Scale - impact_y
    IN  IF ~Alive(tank) THEN tank
        ELSE IF dx * dx + dy * dy > max_distance * max_distance THEN tank
        ELSE TakeDamage(tank, dmg)

\* Game._apply_splash_damage, the body of the loop for one tank.
SplashTank(tank, dmg, impact_x, impact_y) ==
    LET max_distance == explosion_radius
        dx == tank.x * Scale - impact_x
        dy == tank.y * Scale - impact_y
        distance == Hypot(dx, dy)
        falloff == Scale - Min((distance * Scale) \div max_distance, Scale)
        splash_damage == Max(1, Trunc(dmg * falloff * 6, 10 * Scale))
    IN  IF ~Alive(tank) THEN tank
        ELSE IF dx * dx + dy * dy > max_distance * max_distance THEN tank
        ELSE IF dx * dx + dy * dy <= 500 * 500 THEN TakeDamage(tank, dmg)
        ELSE TakeDamage(tank, splash_damage)

\* An _apply_splash_damage that names the first tank of the list as the fatal
\* one whether the splash killed it or not.
ApplySplashDamageFirstTank(ts, dmg, impact_x, impact_y) ==
    << [t \in DOMAIN ts |-> SplashTank(ts[t], dmg, impact_x, impact_y)], 1 >>

\* Game._apply_splash_damage: <<tanks after, fatal tank (0 for None)>>; the
\* last tank in list order that the splash killed is the one returned.
ApplySplashDamage(ts, dmg, impact_x, impact_y) ==
    LET after == [t \in DOMAIN ts |-> SplashTank(ts[t], dmg, impact_x, impact_y)]
        killed == { t \in DOMAIN ts : Alive(ts[t]) /\ ~Alive(after[t]) }
    IN  << after,
           IF killed = {} THEN 0
           ELSE CHOOSE t \in killed : \A other \in killed : t >= other >>

\* Game.apply_shot_effects, the branch of a direct hit: <<tanks after, fatal
\* tank (0 for None)>>.
DirectHitAsSplash(ts, dmg, t) ==
    LET after == [ts EXCEPT ![t] = TakeDamage(ts[t], Max(1, Trunc(dmg * 6, 10)))]
    IN  <<after, IF Alive(ts[t]) /\ ~Alive(after[t]) THEN t ELSE 0>>

DirectHit(ts, dmg, t) ==
    LET after == [ts EXCEPT ![t] = TakeDamage(ts[t], dmg)]
    IN  <<after, IF Alive(ts[t]) /\ ~Alive(after[t]) THEN t ELSE 0>>

\* An apply_shot_effects that carves the crater at every impact point, a hit
\* tank or structure or not.
ApplyShotEffectsCarveAlways(w, result) ==
    LET has_impact == ~IsNone(result.impact)
        impact_x == Val(result.impact)[1]
        impact_y == Val(result.impact)[2]
        structure ==
            IF result.hit_building # 0 /\ has_impact
            THEN ApplyBuildingDamage(w.bs, w.pending, w.damage,
                                     result.hit_building, result.hit_building_floor)
            ELSE <<w.bs, w.pending>>
        rs == IF result.hit_building = 0 /\ result.hit_rubble # 0 /\ has_impact
              THEN DamageRubble(w.rs, result.hit_rubble, w.damage) ELSE w.rs
        hm == IF has_impact
              THEN CarveCircle(w.hm, w.st, impact_x, impact_y, explosion_radius)
              ELSE w.hm
        hurt == IF result.hit_tank # 0
                THEN DirectHit(w.ts, w.damage, result.hit_tank)
                ELSE IF has_impact
                THEN ApplySplashDamage(w.ts, w.damage, impact_x, impact_y)
                ELSE <<w.ts, 0>>
    IN  [w EXCEPT !.hm = hm, !.bs = structure[1], !.pending = structure[2],
                  !.rs = rs, !.ts = SettleAll(hm, w.st, hurt[1]),
                  !.result = [result EXCEPT !.fatal_hit = hurt[2] # 0,
                                            !.fatal_tank = hurt[2]]]

\* Game.apply_shot_effects: the state after, with the result's fatal_hit and
\* fatal_tank filled in.
ApplyShotEffects(w, result) ==
    LET has_impact == ~IsNone(result.impact)
        impact_x == Val(result.impact)[1]
        impact_y == Val(result.impact)[2]
        structure ==
            IF result.hit_building # 0 /\ has_impact
            THEN ApplyBuildingDamage(w.bs, w.pending, w.damage,
                                     result.hit_building, result.hit_building_floor)
            ELSE <<w.bs, w.pending>>
        rs == IF result.hit_building = 0 /\ result.hit_rubble # 0 /\ has_impact
              THEN DamageRubble(w.rs, result.hit_rubble, w.damage) ELSE w.rs
        hm == IF result.hit_building = 0 /\ result.hit_rubble = 0
                 /\ has_impact /\ result.hit_tank = 0
              THEN CarveCircle(w.hm, w.st, impact_x, impact_y, explosion_radius)
              ELSE w.hm
        hurt == IF result.hit_tank # 0
                THEN DirectHit(w.ts, w.damage, result.hit_tank)
                ELSE IF has_impact
                THEN ApplySplashDamage(w.ts, w.damage, impact_x, impact_y)
                ELSE <<w.ts, 0>>
    IN  [w EXCEPT !.hm = hm, !.bs = structure[1], !.pending = structure[2],
                  !.rs = rs, !.ts = SettleAll(hm, w.st, hurt[1]),
                  !.result = [result EXCEPT !.fatal_hit = hurt[2] # 0,
                                            !.fatal_tank = hurt[2]]]

\* A _collapse_building that leaves the upper floors as they are.
CollapseGroundFloorOnly(hm, st, bs, k) ==
    IF bs[k].collapsed THEN <<hm, bs>>
    ELSE LET b == bs[k]
             width == b.right - b.left
             center == (b.left + b.right) \div 2
             radius == Max(1200, (width * 8) \div 10)
         IN  << CarveCircle(hm, st, center, b.base, radius),
                [bs EXCEPT ![k].collapsed = TRUE,
                           ![k].unstable = FALSE,
                           ![k].floors[1].destroyed = TRUE,
                           ![k].floors[1].hp = 0] >>

\* World._collapse_building: <<height map, buildings>> after.
CollapseBuilding(hm, st, bs, k) ==
    IF bs[k].collapsed THEN <<hm, bs>>
    ELSE LET b == bs[k]
             width == b.right - b.left
             center == (b.left + b.right) \div 2
             radius == Max(1200, (width * 8) \div 10)
         IN  << CarveCircle(hm, st, center, b.base, radius),
                [bs EXCEPT ![k].collapsed = TRUE,
                           ![k].unstable = FALSE,
                           ![k].floors =
                               [i \in 1..Len(b.floors) |->
                                   [b.floors[i] EXCEPT !.destroyed = TRUE, !.hp = 0]]] >>

\* A timer loop that brings every pending building down as soon as the timer
\* of one of them has run out.
RunTimersTogether(bs, pending, dt) ==
    LET live == SelectSeq(pending, LAMBDA k : ~bs[k].collapsed)
        timer(k) == Max(0, bs[k].collapse_timer - dt)
        bs2 == [k \in DOMAIN bs |->
                   IF \E i \in 1..Len(live) : live[i] = k
                   THEN [bs[k] EXCEPT !.collapse_timer = timer(k)] ELSE bs[k]]
    IN  IF \E i \in 1..Len(live) : ~(bs2[live[i]].collapse_timer > 0)
        THEN <<bs2, <<>>, live>>
        ELSE <<bs2, live, <<>> >>

\* World.update_collapsing_buildings, the first loop: the timers run down by
\* dt; <<buildings, still pending, collapsed now>>.
RunTimers(bs, pending, dt) ==
    LET live == SelectSeq(pending, LAMBDA k : ~bs[k].collapsed)
        timer(k) == Max(0, bs[k].collapse_timer - dt)
        bs2 == [k \in DOMAIN bs |->
                   IF \E i \in 1..Len(live) : live[i] = k
                   THEN [bs[k] EXCEPT !.collapse_timer = timer(k)] ELSE bs[k]]
    IN  << bs2,
           SelectSeq(live, LAMBDA k : bs2[k].collapse_timer > 0),
           SelectSeq(live, LAMBDA k : ~(bs2[k].collapse_timer > 0)) >>

\* World.update_collapsing_buildings, the second loop: _collapse_building on
\* each building of the collapsed list, in order.
RECURSIVE CollapseEach(_, _, _, _)
CollapseEach(hm, st, bs, collapsed) ==
    IF collapsed = <<>> THEN <<hm, bs>>
    ELSE (CHOOSE the \in { CollapseEach(one[1], st, one[2], Tail(collapsed)) :
                      one \in {CollapseBuilding(hm, st, bs, Head(collapsed))} } : TRUE)

\* World.update_collapsing_buildings: <<height map, buildings, pending,
\* returned list>>.
UpdateCollapsingBuildings(hm, st, bs, pending, dt) ==
    CHOOSE the \in
        { <<both[1][1], both[1][2], both[2][2], both[2][3]>> :
            both \in { <<CollapseEach(hm, st, run[1], run[3]), run>> :
                         run \in {RunTimers(bs, pending, dt)} } } : TRUE

\* Game.handle_building_collapse, the body of the damage loop for one tank.
CollapseDamageTank(tank, dmg, b) ==
    LET center == (b.left + b.right) \div 2
        half_span == (b.right - b.left) \div 2
        influence == half_span + 1500
        base_damage == Max(dmg, Trunc(dmg * (1100 + 150 * Len(b.floors)), Scale))
        horizontal == Abs(tank.x * Scale - center)
        falloff == Max(250, Scale - (horizontal * Scale) \div Max(influence, 1))
        hurt == Max(1, Trunc(base_damage * falloff, Scale))
    IN  IF ~Alive(tank) \/ horizontal > influence THEN tank
        ELSE TakeDamage(tank, hurt)

\* Game.handle_building_collapse: the tanks after (damaged, then settled).
HandleBuildingCollapse(hm, st, ts, dmg, b) ==
    SettleAll(hm, st, [t \in DOMAIN ts |-> CollapseDamageTank(ts[t], dmg, b)])

-----------------------------------------------------------------------------
(* Terrain carving on its own: World.carve_circle called with arbitrary    *)
(* centres and radii on generated height maps.                             *)

MaxCarves == 2

CarveSettings ==
    { [width |-> 8, height |-> 20, detail |-> 2,
       min_height |-> 8000, max_height |-> 14000],
      [width |-> 4, height |-> 20, detail |-> 4,
       min_height |-> 8000, max_height |-> 14000] }

\* Height maps World.__init__ can leave behind: values in
\* [min_height, max_height], flat, sloped or with a valley.
GeneratedMaps(st) ==
    LET n == GridWidth(st)
    IN  { [hx \in 0..(n - 1) |-> 10000],
          [hx \in 0..(n - 1) |-> 12700],
          [hx \in 0..(n - 1) |-> Min(st.max_height, 9000 + 250 * hx)],
          [hx \in 0..(n - 1) |-> Min(st.max_height, 9500 + 400 * Abs(hx - n \div 2))] }

CarveXs == {-1000, 2300, 4000, 7500}
CarveYs == {9500, 12000}
CarveRadii == {0, 1200, 1800}

NoSession ==
    [current_player |-> 0, projectile_result |-> None, projectile_timer |-> 0,
     projectile_index |-> 0, projectile_position |-> None, active_shooter |-> 0,
     superpower_active_player |-> None, winner |-> 0, winner_delay |-> 0,
     active_power |-> "None"]

InitCarve ==
    /\ settings \in CarveSettings
    /\ height_map \in GeneratedMaps(settings)
    /\ buildings = <<>>
    /\ rubble_segments = <<>>
    /\ pending_collapses = <<>>
    /\ tanks = <<>>
    /\ game = NewGame
    /\ session = NoSession
    /\ last = [op |-> "init", n |-> 0, cx |-> 0, cy |-> 0, radius |-> 0,
               before |-> height_map]

\* World.carve_circle(cx, cy, radius)
CarveCircleCall(cx, cy, radius) ==
    /\ last.n < MaxCarves
    /\ height_map' = CarveCircle(height_map, settings, cx, cy, radius)
    /\ last' = [op |-> "carve_circle", n |-> last.n + 1, cx |-> cx, cy |-> cy,
                radius |-> radius, before |-> height_map]
    /\ UNCHANGED <<settings, buildings, rubble_segments, pending_collapses,
                   tanks, game, session>>

NextCarve == \E cx \in CarveXs, cy \in CarveYs, radius \in CarveRadii :
                 CarveCircleCall(cx, cy, radius)

SpecCarve == InitCarve /\ [][NextCarve]_vars

\* Carves at the left edge of the world, small enough for the affected span
\* to be the sub-cell 0 alone, and impact heights above max_height.
EdgeXs == {-200, 0, 300}
EdgeYs == {9500, 15000}
EdgeRadii == {200, 1800}

NextCarveEdge == \E cx \in EdgeXs, cy \in EdgeYs, radius \in EdgeRadii :
                     CarveCircleCall(cx, cy, radius)

SpecCarveEdge == InitCarve /\ [][NextCarveEdge]_vars

-----------------------------------------------------------------------------
(* The worlds of the tank, game and session specifications.                *)

MatchSettings ==
    [width |-> 20, height |-> 20, detail |-> 2,
     min_height |-> 8000, max_height |-> 14000]

\* Level ground at 12.0, as the flat_settings fixture of the tests builds it.
FlatMap == [hx \in 0..39 |-> 12000]

\* Ground that steps: a ledge on the columns 0 and 1 with a two-row cliff
\* beside it, level ground at 12.9 in the middle and a shelf one row up on
\* the columns 16 to 19.
SteppedMap ==
    [hx \in 0..39 |-> IF hx < 4 THEN 10500
                      ELSE IF hx < 6 THEN 12600
                      ELSE IF hx < 32 THEN 12900
                      ELSE 11900]

\* World._terrain_slice: the sub-cells under the span [left, right].
TerrainSlice(st, left, right) ==
    Max(0, Floor(left * st.detail, Scale))..
        Min(GridWidth(st) - 1, -Floor(-(right * st.detail), Scale))

BuildingFloor(height, max_hp, hp) ==
    [height |-> height, max_hp |-> max_hp, hp |-> hp, destroyed |-> hp = 0]

\* A three-storey building inside the reserved margin of 6 columns, on the
\* columns 7 to 9; its base is the ground under it.
Tower(base, hp0, hp1, hp2) ==
    [left |-> 7000, right |-> 10400, base |-> base,
     floors |-> <<BuildingFloor(2200, 45, hp0), BuildingFloor(2000, 45, hp1),
                  BuildingFloor(2000, 45, hp2)>>,
     unstable |-> FALSE, collapsed |-> FALSE, collapse_timer |-> 0]

\* A mound of rubble on column 13.
Mound == [left |-> 13000, right |-> 14000, base |-> 12900, height |-> 1000,
          hp |-> 40, max_hp |-> 40, destroyed |-> FALSE]

\* Tank(name, x, y, facing, turret_angle = 45) with the dataclass defaults.
NewTank(x, y, facing) ==
    [x |-> x, y |-> y, facing |-> facing, hp |-> 100, turret_angle |-> 45,
     shot_power |-> 1000, super_power |-> 0, last_command |-> "None"]

\* Game._find_spawn: the first column from start, stepping by step, that has
\* a surface and is not blocked; None when the scan leaves the world (the
\* code raises RuntimeError).
\* A spawn search that puts the tank into the first solid row instead of on
\* the surface.
RECURSIVE FindSpawnInGround(_, _, _, _, _, _)
FindSpawnInGround(hm, st, bs, rs, x, step) ==
    IF ~(0 <= x /\ x < st.width) THEN None
    ELSE LET top == HighestSolid(hm, st, x)
         IN  IF ~IsNone(top) /\ ~IsColumnBlocked(bs, rs, x, TRUE)
             THEN Some(<<x, Val(top)>>)
             ELSE FindSpawnInGround(hm, st, bs, rs, x + step, step)

RECURSIVE FindSpawn(_, _, _, _, _, _)
FindSpawn(hm, st, bs, rs, x, step) ==
    IF ~(0 <= x /\ x < st.width) THEN None
    ELSE LET surface == SurfaceY(hm, st, x)
         IN  IF ~IsNone(surface) /\ Val(surface) >= 0
                /\ ~IsColumnBlocked(bs, rs, x, TRUE)
             THEN Some(<<x, Val(surface)>>)
             ELSE FindSpawn(hm, st, bs, rs, x + step, step)

\* Game._spawn_tanks: the two tanks, None when a spawn search fails.
SpawnTanks(hm, st, bs, rs) ==
    LET left == FindSpawn(hm, st, bs, rs, 2, 1)
        right == FindSpawn(hm, st, bs, rs, st.width - 3, -1)
    IN  IF IsNone(left) \/ IsNone(right) THEN None
        ELSE Some(<< NewTank(Val(left)[1], Val(left)[2], 1),
                     NewTank(Val(right)[1], Val(right)[2], -1) >>)

-----------------------------------------------------------------------------
(* Tank operations on their own: move, take_damage and the aim controls   *)
(* called on the tanks of a freshly constructed Game.                      *)

MaxTankCalls == 4

MoveDirections == {-1, 1}

\* The columns the tanks stand on when the calls start: the spawn columns 2
\* and width - 3, and columns they have driven to.
TankOneColumns == {2, 5}
TankTwoColumns == {17, 12}

\* A tank with the dataclass defaults standing on the surface of column x.
Standing(hm, st, x, facing) == NewTank(x, Val(SurfaceY(hm, st, x)), facing)
DamageAmounts == {-10, 0, 10, 25, 120}

InitTank ==
    /\ settings = MatchSettings
    /\ height_map \in {FlatMap, SteppedMap}
    /\ buildings \in {<<>>, <<Tower(height_map[14], 45, 45, 45)>>}
    /\ rubble_segments \in {<<>>, <<Mound>>}
    /\ pending_collapses = <<>>
    /\ tanks \in { <<Standing(height_map, settings, x1, 1),
                      Standing(height_map, settings, x2, -1)>> :
                        x1 \in TankOneColumns, x2 \in TankTwoColumns }
    /\ game = NewGame
    /\ session = NoSession
    /\ last = [op |-> "init", n |-> 0, t |-> 1, arg |-> 0, ret |-> FALSE,
               before |-> tanks[1]]

\* tank.move(world, direction)
MoveCall(t, direction) ==
    LET r == TankMove(tanks[t], height_map, settings, buildings,
                      rubble_segments, direction)
    IN  /\ last.n < MaxTankCalls
        /\ tanks' = [tanks EXCEPT ![t] = r[2]]
        /\ last' = [op |-> "move", n |-> last.n + 1, t |-> t, arg |-> direction,
                    ret |-> r[1], before |-> tanks[t]]
        /\ UNCHANGED <<settings, height_map, buildings, rubble_segments,
                       pending_collapses, game, session>>

\* tank.take_damage(amount)
TakeDamageCall(t, amount) ==
    /\ last.n < MaxTankCalls
    /\ tanks' = [tanks EXCEPT ![t] = TakeDamage(tanks[t], amount)]
    /\ last' = [op |-> "take_damage", n |-> last.n + 1, t |-> t, arg |-> amount,
                ret |-> FALSE, before |-> tanks[t]]
    /\ UNCHANGED <<settings, height_map, buildings, rubble_segments,
                   pending_collapses, game, session>>

NextTank ==
    \/ \E t \in 1..2, direction \in MoveDirections : MoveCall(t, direction)
    \/ \E t \in 1..2, amount \in DamageAmounts : TakeDamageCall(t, amount)

SpecTank == InitTank /\ [][NextTank]_vars

-----------------------------------------------------------------------------
(* Shots and collapses: Game.step_projectile with its effects applied, and *)
(* the collapse of the buildings a shot has scheduled, on matches that are *)
(* under way.                                                              *)

MaxShots == 2

\* The world and game state the operators of Game take.
TheWorld ==
    [st |-> settings, hm |-> height_map, bs |-> buildings, rs |-> rubble_segments,
     pending |-> pending_collapses, ts |-> tanks, gravity |-> game.gravity,
     damage |-> game.damage, result |-> None]

\* A tank standing on column x with the aim and the hp a match has left it.
Aimed(hm, st, x, facing, hp, turret_angle, shot_power) ==
    [Standing(hm, st, x, facing) EXCEPT !.hp = hp, !.turret_angle = turret_angle,
                                        !.shot_power = shot_power]

ShooterAngles == {-15, 0}
ShooterPowers == {600, 1000}
HitPoints == {100, 20}

\* The hit points of the three floors of the building: untouched, the upper
\* floors shot away, the ground floor hit once, and both.
TowerStates == { <<45, 45, 45>>, <<45, 0, 0>>, <<20, 45, 45>>, <<20, 0, 0>> }

\* The level ground of the tests' flat_world, tank one on column 4 as
\* test_step_projectile_direct_hit places it, with and without gravity.
InitFlat ==
    /\ settings = MatchSettings
    /\ height_map = FlatMap
    /\ buildings = <<>>
    /\ rubble_segments = <<>>
    /\ game \in { [NewGame EXCEPT !.gravity = g] : g \in {0, 350} }
    /\ tanks \in { << Aimed(height_map, settings, 4, 1, 100, a1, p1),
                      Aimed(height_map, settings, x2, -1, hp2, a2, 1000) >> :
                     a1 \in ShooterAngles, p1 \in ShooterPowers,
                     x2 \in {8, 17}, hp2 \in HitPoints, a2 \in {0, 45} }

\* Stepped ground with the building standing on it.
InitUrban ==
    /\ settings = MatchSettings
    /\ height_map = SteppedMap
    /\ buildings \in { <<Tower(height_map[14], hp[1], hp[2], hp[3])>> :
                         hp \in TowerStates }
    /\ rubble_segments \in {<<>>, <<Mound>>}
    /\ game = NewGame
    /\ tanks \in { << Aimed(height_map, settings, x1, 1, 100, a1, p1),
                      Aimed(height_map, settings, x2, -1, hp2, a2, 1000) >> :
                     x1 \in {2}, a1 \in ShooterAngles, p1 \in ShooterPowers,
                     x2 \in {10, 17}, hp2 \in HitPoints, a2 \in {-45, 0} }

\* Ground at 12.0 on the columns 0 to 11 and a plateau two rows up from the
\* column 12 on, the second tank standing at the edge of the plateau.
CliffMap == [hx \in 0..39 |-> IF hx < 24 THEN 12000 ELSE 10000]

InitCliff ==
    /\ settings = MatchSettings
    /\ height_map = CliffMap
    /\ buildings = <<>>
    /\ rubble_segments = <<>>
    /\ game = NewGame
    /\ tanks \in { << Aimed(height_map, settings, 4, 1, 100, -15, 1000),
                      Aimed(height_map, settings, 12, -1, hp2, 0, 1000) >> :
                     hp2 \in HitPoints }

NoShot == ShotResult(0, None, <<>>, 0, -1, 0)

InitGame ==
    /\ InitFlat \/ InitUrban \/ InitCliff
    /\ pending_collapses = <<>>
    /\ session = NoSession
    /\ last = [op |-> "init", n |-> 0, shooter |-> 0, result |-> NoShot,
               tanks |-> tanks, buildings |-> buildings,
               rubble_segments |-> rubble_segments, height_map |-> height_map]

\* game.step_projectile(shooter), apply_effects left at True.
Fire(shooter) ==
    /\ last.n < MaxShots
    /\ Alive(tanks[shooter])
    /\ \E after \in {ApplyShotEffects(TheWorld, StepProjectile(TheWorld, shooter))} :
        /\ height_map' = after.hm
        /\ buildings' = after.bs
        /\ rubble_segments' = after.rs
        /\ pending_collapses' = after.pending
        /\ tanks' = after.ts
        /\ last' = [op |-> "fire", n |-> last.n + 1, shooter |-> shooter,
                    result |-> after.result, tanks |-> tanks,
                    buildings |-> buildings,
                    rubble_segments |-> rubble_segments,
                    height_map |-> height_map]
    /\ UNCHANGED <<settings, game, session>>

\* handle_building_collapse on each building of the list, in order.
RECURSIVE HandleEach(_, _, _, _, _, _)
HandleEach(hm, st, ts, dmg, bs, collapsed) ==
    IF collapsed = <<>> THEN ts
    ELSE HandleEach(hm, st, HandleBuildingCollapse(hm, st, ts, dmg, bs[Head(collapsed)]),
                    dmg, bs, Tail(collapsed))

CollapseSteps == {400, 800}

\* A frame of the application while a collapse is pending:
\* world.update_collapsing_buildings(dt), then game.handle_building_collapse
\* for every building that came down.
CollapseTick(dt) ==
    LET run == UpdateCollapsingBuildings(height_map, settings, buildings,
                                         pending_collapses, dt)
    IN  /\ pending_collapses # <<>>
        /\ height_map' = run[1]
        /\ buildings' = run[2]
        /\ pending_collapses' = run[3]
        /\ tanks' = HandleEach(run[1], settings, tanks, game.damage, run[2], run[4])
        /\ last' = [last EXCEPT !.op = "collapse_tick", !.tanks = tanks,
                                !.buildings = buildings,
                                !.height_map = height_map]
        /\ UNCHANGED <<settings, rubble_segments, game, session>>

NextGame ==
    \/ \E shooter \in 1..2 : Fire(shooter)
    \/ \E dt \in CollapseSteps : CollapseTick(dt)

SpecGame == InitGame /\ [][NextGame]_vars

-----------------------------------------------------------------------------
(* GameSession: turns, the projectile animation, victory and the           *)
(* superpowers, driven as the pygame application drives it.  The session   *)
(* variable holds the attributes of GameSession, tanks named by their      *)
(* position in Game.tanks (0 for None), and active_power, the kind of the  *)
(* application's running superpower ("None" when there is none).           *)

projectile_interval == 30

\* An advance_turn that hands the turn to the first player.
AdvanceTurnToFirst(s) == [s EXCEPT !.current_player = 0]

\* GameSession.advance_turn
AdvanceTurn(s) == [s EXCEPT !.current_player = 1 - s.current_player]

\* A check_victory that names the first tank the winner whoever is left.
CheckVictoryFirstTank(s, ts) ==
    LET alive == { t \in 1..Len(ts) : Alive(ts[t]) }
    IN  IF Cardinality(alive) = 1 THEN [s EXCEPT !.winner = 1]
        ELSE IF Cardinality(alive) = 0 THEN [s EXCEPT !.winner = 0]
        ELSE s

\* A check_victory that names the player whose turn it is the winner when
\* one tank is left.
CheckVictoryOfTheTurn(s, ts) ==
    LET alive == { t \in 1..Len(ts) : Alive(ts[t]) }
    IN  IF Cardinality(alive) = 1 THEN [s EXCEPT !.winner = s.current_player + 1]
        ELSE IF Cardinality(alive) = 0 THEN [s EXCEPT !.winner = 0]
        ELSE s

\* GameSession.check_victory
CheckVictory(s, ts) ==
    LET alive == { t \in 1..Len(ts) : Alive(ts[t]) }
    IN  IF Cardinality(alive) = 1
        THEN [s EXCEPT !.winner = CHOOSE t \in alive : TRUE]
        ELSE IF Cardinality(alive) = 0 THEN [s EXCEPT !.winner = 0]
        ELSE s

\* GameSession._update_super_power: the tanks after the shooter's gauge has
\* gained 0.08 and the bonus of the shot.
UpdateSuperPower(ts, shooter, result) ==
    LET opponents == { t \in 1..Len(ts) : t # shooter /\ Alive(ts[t]) }
        dist(t) == Hypot(ts[t].x * Scale - Val(result.impact)[1],
                         ts[t].y * Scale - Val(result.impact)[2])
        min_dist == CHOOSE d \in { dist(t) : t \in opponents } :
                        \A t \in opponents : d <= dist(t)
        falloff == Max(0, ((6000 - min_dist) * Scale) \div 6000)
        bonus == IF result.hit_tank # 0 /\ result.hit_tank # shooter THEN 750
                 ELSE IF ~IsNone(result.impact) /\ opponents # {}
                 THEN IF min_dist <= 500 THEN 600
                      ELSE (450 * falloff * falloff) \div (Scale * Scale)
                 ELSE 0
    IN  [ts EXCEPT ![shooter] = AddSuperPower(ts[shooter], 80 + bonus)]

\* GameSession.resolve_projectile(result) with a result that is not None:
\* <<world and tanks after, session after>>.
ResolveProjectile(w, s, result) ==
    LET after == ApplyShotEffects(w, result)
        shooter == s.current_player + 1
        ts == UpdateSuperPower(after.ts, shooter, after.result)
        checked == CheckVictory(AdvanceTurn([s EXCEPT !.active_shooter = 0]), ts)
    IN  << [after EXCEPT !.ts = ts],
           [checked EXCEPT !.winner_delay =
                IF checked.winner # 0 /\ after.result.fatal_hit THEN 2000 ELSE 0] >>

\* GameSession.complete_superpower
CompleteSuperpower(s, ts) ==
    [CheckVictory(AdvanceTurn([s EXCEPT !.superpower_active_player = None]), ts)
        EXCEPT !.winner_delay = 0]

MaxSessionCalls == 4

SessionHitPoints == {100, 20, 5}

\* Matches under way when the session is observed: the duel of the flat
\* test world, and a duel beside the building with only its ground floor
\* left, one hit from destruction.
InitSession ==
    /\ settings = MatchSettings
    /\ \/ /\ height_map = FlatMap
          /\ buildings = <<>>
          /\ tanks \in { << [Aimed(height_map, settings, 4, 1, hp1, 0, 600)
                                EXCEPT !.super_power = sp],
                            Aimed(height_map, settings, 8, -1, hp2, 0, 1000) >> :
                           hp1 \in SessionHitPoints, hp2 \in SessionHitPoints, sp \in {0, Scale} }
       \/ /\ height_map = SteppedMap
          /\ buildings = <<Tower(height_map[14], 20, 0, 0)>>
          /\ tanks \in { << [Aimed(height_map, settings, 6, 1, hp1, -15, 600)
                                EXCEPT !.super_power = sp],
                            Aimed(height_map, settings, 10, -1, hp2, 0, 1000) >> :
                           hp1 \in SessionHitPoints, hp2 \in SessionHitPoints, sp \in {0, Scale} }
    /\ rubble_segments = <<>>
    /\ pending_collapses = <<>>
    /\ game = NewGame
    /\ session \in { [NoSession EXCEPT !.current_player = p] : p \in {0, 1} }
    /\ last = [op |-> "init", n |-> 0, ret |-> FALSE]

IsAnimatingProjectile == ~IsNone(session.projectile_result)

\* The keys of a turn are read when no superpower runs, no projectile is in
\* flight and nobody has won.
AwaitingInput ==
    /\ session.active_power = "None"
    /\ ~IsAnimatingProjectile
    /\ session.winner = 0

\* session.attempt_move(direction)
AttemptMove(direction) ==
    LET t == session.current_player + 1
        r == TankMove(tanks[t], height_map, settings, buildings,
                      rubble_segments, direction)
        moved == [tanks EXCEPT ![t] = r[2]]
    IN  /\ last.n < MaxSessionCalls
        /\ AwaitingInput
        /\ tanks' = moved
        /\ session' = IF r[1] THEN CheckVictory(AdvanceTurn(session), moved)
                      ELSE session
        /\ last' = [op |-> "attempt_move", n |-> last.n + 1, ret |-> r[1]]
        /\ UNCHANGED <<settings, height_map, buildings, rubble_segments,
                       pending_collapses, game>>

\* session.begin_projectile(session.current_tank)
BeginProjectile ==
    LET t == session.current_player + 1
    IN  /\ last.n < MaxSessionCalls
        /\ AwaitingInput
        /\ \E result \in {StepProjectile(TheWorld, t)} :
               session' = [session EXCEPT
                             !.projectile_result = Some(result),
                             !.projectile_index = 0,
                             !.projectile_timer = 0,
                             !.projectile_position =
                                 IF result.path # <<>> THEN Some(result.path[1])
                                 ELSE None,
                             !.active_shooter = t]
        /\ tanks' = [tanks EXCEPT ![t].last_command = "fire"]
        /\ last' = [op |-> "begin_projectile", n |-> last.n + 1, ret |-> FALSE]
        /\ UNCHANGED <<settings, height_map, buildings, rubble_segments,
                       pending_collapses, game>>

FrameTimes == {600, 12000}

\* A frame of the application while a projectile is in flight:
\* session.update_projectile(dt) and, when the path is exhausted,
\* session.resolve_projectile(step.result).
UpdateProjectile(dt) ==
    LET result == Val(session.projectile_result)
        total == session.projectile_timer + dt
        steps == total \div projectile_interval
        need == Max(1, Len(result.path) - session.projectile_index)
        flying == [session EXCEPT
                     !.projectile_timer = total - steps * projectile_interval,
                     !.projectile_index = session.projectile_index + steps,
                     !.projectile_position =
                         IF steps > 0
                         THEN Some(result.path[session.projectile_index + steps + 1])
                         ELSE session.projectile_position]
        landed == [session EXCEPT
                     !.projectile_timer = total - need * projectile_interval,
                     !.projectile_index = session.projectile_index + need,
                     !.projectile_result = None,
                     !.projectile_position = None]
    IN  /\ last.n < MaxSessionCalls
        /\ IsAnimatingProjectile
        /\ session.active_power = "None"
        /\ IF steps < need
           THEN /\ session' = flying
                /\ last' = [op |-> "update_projectile", n |-> last.n + 1,
                            ret |-> FALSE]
                /\ UNCHANGED <<height_map, buildings, rubble_segments,
                               pending_collapses, tanks>>
           ELSE \E done \in {ResolveProjectile(TheWorld, landed, result)} :
                /\ session' = done[2]
                /\ height_map' = done[1].hm
                /\ buildings' = done[1].bs
                /\ rubble_segments' = done[1].rs
                /\ pending_collapses' = done[1].pending
                /\ tanks' = done[1].ts
                /\ last' = [op |-> "resolve_projectile", n |-> last.n + 1,
                            ret |-> done[1].result.fatal_hit]
        /\ UNCHANGED <<settings, game>>

\* The application's _trigger_superpower(kind), kind "bomber" or "squad".
TriggerSuperpower(kind) ==
    LET t == session.current_player + 1
    IN  /\ last.n < MaxSessionCalls
        /\ session.active_power = "None"
        /\ ~IsAnimatingProjectile
        /\ tanks[t].super_power >= Scale
        /\ tanks' = [tanks EXCEPT ![t].super_power = 0]
        /\ session' = [session EXCEPT
                         !.superpower_active_player = Some(session.current_player),
                         !.active_power = kind]
        /\ last' = [op |-> "trigger_superpower", n |-> last.n + 1, ret |-> TRUE]
        /\ UNCHANGED <<settings, height_map, buildings, rubble_segments,
                       pending_collapses, game>>

\* The application's _apply_superpower_damage(x_world, y_world, damage_scale):
\* apply_shot_effects on an impact without a path, Game.damage scaled for
\* the call.
SuperpowerDamage(x_world, y_world, damage_scale) ==
    LET scaled_damage == Max(1, Trunc(game.damage * damage_scale, Scale))
        result == ShotResult(0, Some(<<x_world, y_world>>), <<>>, 0, -1, 0)
    IN  \E after \in {ApplyShotEffects([TheWorld EXCEPT !.damage = scaled_damage],
                                       result)} :
            /\ height_map' = after.hm
            /\ buildings' = after.bs
            /\ rubble_segments' = after.rs
            /\ pending_collapses' = after.pending
            /\ tanks' = after.ts
            /\ last' = [op |-> "superpower_damage", n |-> last.n + 1,
                        ret |-> after.result.fatal_hit]
            /\ UNCHANGED <<settings, game, session>>

BombColumns == {4, 8}

\* A bomb of the bomber reaching the ground of column x.
BombLands(x) ==
    /\ last.n < MaxSessionCalls
    /\ session.active_power = "bomber"
    /\ SuperpowerDamage(x * Scale, height_map[x * settings.detail], 850)

SquadOffsets == {-500, 0}

\* A panzerfaust of the squad fired at the enemy tank, off by the aim's
\* scatter.
SquadFires(offset) ==
    LET enemy == tanks[2 - Val(session.superpower_active_player)]
    IN  /\ last.n < MaxSessionCalls
        /\ session.active_power = "squad"
        /\ SuperpowerDamage(enemy.x * Scale + offset, enemy.y * Scale - 250, 1200)

\* The frame in which the superpower ends: session.complete_superpower().
SuperpowerEnds ==
    /\ last.n < MaxSessionCalls
    /\ session.active_power # "None"
    /\ session' = [CompleteSuperpower(session, tanks) EXCEPT !.active_power = "None"]
    /\ last' = [op |-> "complete_superpower", n |-> last.n + 1, ret |-> FALSE]
    /\ UNCHANGED <<settings, height_map, buildings, rubble_segments,
                   pending_collapses, tanks, game>>

\* session.on_building_collapse(affected, fatalities): victory is looked at
\* again.
OnBuildingCollapse(s, ts) == CheckVictory(s, ts)

\* A frame of the application while a collapse is pending:
\* update_collapsing_buildings(dt), handle_building_collapse for each
\* building that came down, then session.on_building_collapse for each.
CollapseFrame(dt) ==
    \E run \in {UpdateCollapsingBuildings(height_map, settings, buildings,
                                          pending_collapses, dt)} :
        LET after == HandleEach(run[1], settings, tanks, game.damage, run[2], run[4])
        IN  /\ last.n < MaxSessionCalls
            /\ pending_collapses # <<>>
            /\ height_map' = run[1]
            /\ buildings' = run[2]
            /\ pending_collapses' = run[3]
            /\ tanks' = after
            /\ session' = IF run[4] = <<>> THEN session
                          ELSE OnBuildingCollapse(session, after)
            /\ last' = [op |-> "collapse_frame", n |-> last.n + 1, ret |-> FALSE]
            /\ UNCHANGED <<settings, rubble_segments, game>>

NextSession ==
    \/ \E direction \in MoveDirections : AttemptMove(direction)
    \/ BeginProjectile
    \/ \E dt \in FrameTimes : UpdateProjectile(dt)
    \/ \E kind \in {"bomber", "squad"} : TriggerSuperpower(kind)
    \/ \E x \in BombColumns : BombLands(x)
    \/ \E offset \in SquadOffsets : SquadFires(offset)
    \/ SuperpowerEnds
    \/ \E dt \in CollapseSteps : CollapseFrame(dt)

SpecSession == InitSession /\ [][NextSession]_vars

\* The session called past the end of the match: attempt_move and
\* begin_projectile do not look at the winner themselves, it is the
\* application that stops reading the keys.  last.won keeps the winner there
\* was when the call was made.
AttemptMoveAnyway(direction) ==
    LET t == session.current_player + 1
        r == TankMove(tanks[t], height_map, settings, buildings,
                      rubble_segments, direction)
        moved == [tanks EXCEPT ![t] = r[2]]
    IN  /\ last.n < MaxSessionCalls
        /\ session.winner # 0
        /\ session.active_power = "None" /\ ~IsAnimatingProjectile
        /\ tanks' = moved
        /\ session' = IF r[1] THEN CheckVictory(AdvanceTurn(session), moved)
                      ELSE session
        /\ last' = [op |-> "attempt_move", n |-> last.n + 1, ret |-> r[1],
                    won |-> session.winner]
        /\ UNCHANGED <<settings, height_map, buildings, rubble_segments,
                       pending_collapses, game>>

BeginProjectileAnyway ==
    LET t == session.current_player + 1
    IN  /\ last.n < MaxSessionCalls
        /\ session.winner # 0
        /\ session.active_power = "None" /\ ~IsAnimatingProjectile
        /\ \E result \in {StepProjectile(TheWorld, t)} :
               session' = [session EXCEPT
                             !.projectile_result = Some(result),
                             !.projectile_index = 0,
                             !.projectile_timer = 0,
                             !.projectile_position =
                                 IF result.path # <<>> THEN Some(result.path[1])
                                 ELSE None,
                             !.active_shooter = t]
        /\ tanks' = [tanks EXCEPT ![t].last_command = "fire"]
        /\ last' = [op |-> "begin_projectile", n |-> last.n + 1, ret |-> FALSE,
                    won |-> session.winner]
        /\ UNCHANGED <<settings, height_map, buildings, rubble_segments,
                       pending_collapses, game>>

NextAftermath ==
    \/ NextSession
    \/ \E direction \in MoveDirections : AttemptMoveAnyway(direction)
    \/ BeginProjectileAnyway

SpecAftermath == InitSession /\ [][NextAftermath]_vars

-----------------------------------------------------------------------------
(* Construction: Game.__init__ on worlds of every width.                   *)

SpawnWidths == {1, 2, 3, 4, 5, 6, 7, 8, 20}

SpawnSettings ==
    { [width |-> w, height |-> 20, detail |-> d,
       min_height |-> 8000, max_height |-> 14000] :
         w \in SpawnWidths, d \in {2, 4} }

\* The world before the tanks are placed; the buildings of an urban world
\* need a width of 20 at least.
InitSpawn ==
    /\ settings \in SpawnSettings
    /\ height_map \in GeneratedMaps(settings)
    /\ buildings \in
         LET section == TerrainSlice(settings, 7000, 10400)
         IN  IF settings.width >= 20
                /\ MaxOver(height_map, section) - MinOver(height_map, section) <= 1400
             THEN {<<>>, <<Tower(MinOver(height_map, section), 45, 45, 45)>>}
             ELSE {<<>>}
    /\ rubble_segments = <<>>
    /\ pending_collapses = <<>>
    /\ tanks = <<>>
    /\ game = NewGame
    /\ session = NoSession
    /\ last = [op |-> "init", n |-> 0]

\* Game(settings = ...): the tanks are spawned, or RuntimeError is raised.
ConstructGame ==
    LET spawned == SpawnTanks(height_map, settings, buildings, rubble_segments)
    IN  /\ last.op = "init"
        /\ tanks' = IF IsNone(spawned) THEN tanks ELSE Val(spawned)
        /\ last' = [op |-> IF IsNone(spawned) THEN "RuntimeError" ELSE "Game",
                    n |-> 1]
        /\ UNCHANGED <<settings, height_map, buildings, rubble_segments,
                       pending_collapses, game, session>>

NextSpawn == ConstructGame

SpecSpawn == InitSpawn /\ [][NextSpawn]_vars

-----------------------------------------------------------------------------
(* GameSession called directly by a client, as the end-to-end playthrough  *)
(* test calls it: begin_projectile, update_projectile and                  *)
(* resolve_projectile are separate calls and nothing but the session's own *)
(* code guards them.                                                       *)

MaxPlaybackCalls == 5

PlaybackTimes == {40, 60, 600}

\* An update_projectile that holds the projectile at the last point of its
\* path and never reports the end.
UpdateProjectileHoldsAtEnd(s, dt) ==
    IF IsNone(s.projectile_result) THEN <<s, FALSE>>
    ELSE
    LET path == Val(s.projectile_result).path
        total == s.projectile_timer + dt
        steps == Min(total \div projectile_interval,
                     Max(0, Len(path) - 1 - s.projectile_index))
    IN  << [s EXCEPT !.projectile_timer = total % projectile_interval,
                     !.projectile_index = s.projectile_index + steps,
                     !.projectile_position =
                         IF steps > 0
                         THEN Some(path[s.projectile_index + steps + 1])
                         ELSE s.projectile_position],
           FALSE >>

\* GameSession.update_projectile(dt): <<session after, step.finished>>; the
\* step's result is the session's projectile_result of before when finished.
UpdateProjectileStep(s, dt) ==
    IF IsNone(s.projectile_result) THEN <<s, FALSE>>
    ELSE
    LET path == Val(s.projectile_result).path
        total == s.projectile_timer + dt
        steps == total \div projectile_interval
        need == Max(1, Len(path) - s.projectile_index)
    IN  IF steps < need
        THEN << [s EXCEPT !.projectile_timer = total - steps * projectile_interval,
                          !.projectile_index = s.projectile_index + steps,
                          !.projectile_position =
                              IF steps > 0
                              THEN Some(path[s.projectile_index + steps + 1])
                              ELSE s.projectile_position],
                FALSE >>
        ELSE << [s EXCEPT !.projectile_timer = total - need * projectile_interval,
                          !.projectile_index = s.projectile_index + need,
                          !.projectile_result = None,
                          !.projectile_position = None],
                TRUE >>

\* GameSession.begin_projectile(tank): <<session after, the result returned>>.
BeginProjectileOf(w, s, t) ==
    LET result == StepProjectile(w, t)
    IN  << [s EXCEPT !.projectile_result = Some(result),
                     !.projectile_index = 0,
                     !.projectile_timer = 0,
                     !.projectile_position =
                         IF result.path # <<>> THEN Some(result.path[1]) ELSE None,
                     !.active_shooter = t],
           result >>

\* What the client has seen: the last call, what it returned, the result the
\* latest begin_projectile returned (fired), the finished steps and the
\* resolutions since then.
NoCall ==
    [op |-> "init", n |-> 0, finished |-> FALSE, result |-> None,
     fired |-> None, finishes |-> 0, resolves |-> 0, animating |-> FALSE]

InitPlayback ==
    /\ settings = MatchSettings
    /\ \/ /\ height_map = FlatMap
          /\ buildings = <<>>
          /\ tanks \in { << Aimed(height_map, settings, 4, 1, 100, a1, 600),
                            Aimed(height_map, settings, 8, -1, hp2, 0, 1000) >> :
                           a1 \in {0, 45}, hp2 \in HitPoints }
       \/ /\ height_map = SteppedMap
          /\ buildings = <<Tower(height_map[14], 20, 0, 0)>>
          /\ tanks = << Aimed(height_map, settings, 6, 1, 100, -15, 600),
                        Aimed(height_map, settings, 10, -1, 100, 0, 1000) >>
    /\ rubble_segments = <<>>
    /\ pending_collapses = <<>>
    /\ game = NewGame
    /\ session \in { [NoSession EXCEPT !.current_player = p] : p \in {0, 1} }
    /\ last = NoCall

\* session.begin_projectile(session.current_tank)
BeginProjectileCall ==
    LET t == session.current_player + 1
    IN  /\ last.n < MaxPlaybackCalls
        /\ \E begun \in {BeginProjectileOf(TheWorld, session, t)} :
               /\ session' = begun[1]
               /\ last' = [op |-> "begin_projectile", n |-> last.n + 1,
                           finished |-> FALSE, result |-> Some(begun[2]),
                           fired |-> Some(begun[2]), finishes |-> 0,
                           resolves |-> 0, animating |-> IsAnimatingProjectile]
        /\ tanks' = [tanks EXCEPT ![t].last_command = "fire"]
        /\ UNCHANGED <<settings, height_map, buildings, rubble_segments,
                       pending_collapses, game>>

\* session.update_projectile(dt), counted as k calls of the client.
UpdateProjectileSeen(dt, k) ==
    LET step == UpdateProjectileStep(session, dt)
    IN  /\ session' = step[1]
        /\ last' = [last EXCEPT !.op = "update_projectile", !.n = last.n + k,
                                !.finished = step[2],
                                !.result = IF step[2] THEN session.projectile_result
                                           ELSE None,
                                !.finishes = last.finishes + (IF step[2] THEN 1 ELSE 0),
                                !.animating = IsAnimatingProjectile]
        /\ UNCHANGED <<settings, height_map, buildings, rubble_segments,
                       pending_collapses, tanks, game>>

\* session.update_projectile(dt)
UpdateProjectileCall(dt) ==
    /\ last.n < MaxPlaybackCalls
    /\ UpdateProjectileSeen(dt, 1)

\* session.resolve_projectile(step.result) for the step that finished.
ResolveProjectileCall ==
    /\ last.n < MaxPlaybackCalls
    /\ last.op = "update_projectile"
    /\ last.finished
    /\ \E done \in {ResolveProjectile(TheWorld, session, Val(last.result))} :
           /\ session' = done[2]
           /\ height_map' = done[1].hm
           /\ buildings' = done[1].bs
           /\ rubble_segments' = done[1].rs
           /\ pending_collapses' = done[1].pending
           /\ tanks' = done[1].ts
    /\ last' = [last EXCEPT !.op = "resolve_projectile", !.n = last.n + 1,
                            !.finished = FALSE,
                            !.resolves = last.resolves + 1,
                            !.animating = IsAnimatingProjectile]
    /\ UNCHANGED <<settings, game>>

NextPlayback ==
    \/ BeginProjectileCall
    \/ \E dt \in PlaybackTimes : UpdateProjectileCall(dt)
    \/ ResolveProjectileCall

SpecPlayback == InitPlayback /\ [][NextPlayback]_vars

\* The playback as a frame loop runs it: a shot is begun when none is in
\* flight, and update_projectile(dt) is called frame after frame for as long
\* as the loop runs, a projectile pending or not; only the shots begun and
\* resolved are counted.
BeginWhenIdle ==
    /\ ~IsAnimatingProjectile
    /\ BeginProjectileCall

FrameUpdate(dt) == UpdateProjectileSeen(dt, 0)

NextFrames ==
    \/ BeginWhenIdle
    \/ \E dt \in PlaybackTimes : FrameUpdate(dt)
    \/ ResolveProjectileCall

\* The frame loop calls update_projectile in every frame: the call is taken
\* whenever it stays possible.
SpecFrames ==
    /\ InitPlayback
    /\ [][NextFrames]_vars
    /\ WF_vars(\E dt \in PlaybackTimes : FrameUpdate(dt))

-----------------------------------------------------------------------------
(* The collapse of buildings: World.schedule_building_collapse,            *)
(* World.update_collapsing_buildings and Game._apply_building_damage       *)
(* called in any order on a street of two buildings.                       *)

MaxCollapseCalls == 4

StreetSettings ==
    [width |-> 24, height |-> 20, detail |-> 2,
     min_height |-> 8000, max_height |-> 14000]

\* Level ground at 12.0 under the street.
StreetMap == [hx \in 0..47 |-> 12000]

\* A two-storey building of three columns on ground at base.
Block(left, base, hp0, hp1) ==
    [left |-> left, right |-> left + 3000, base |-> base,
     floors |-> <<BuildingFloor(2200, 45, hp0), BuildingFloor(2000, 45, hp1)>>,
     unstable |-> FALSE, collapsed |-> FALSE, collapse_timer |-> 0]

CollapseDelays == {0, 800, 1200}

NoCollapseCall ==
    [op |-> "init", n |-> 0, building |-> 0, collapsed |-> {}, pending |-> <<>>,
     returned |-> <<>>, floor |-> -1, floors |-> <<>>]

\* The buildings that have collapsed.
CollapsedBuildings == { k \in 1..Len(buildings) : buildings[k].collapsed }

InitCollapse ==
    /\ settings = StreetSettings
    /\ height_map = StreetMap
    /\ buildings \in { << Block(6500, height_map[13], hp0, 45),
                          Block(11000, height_map[22], 45, hp1) >> :
                         hp0 \in {45, 20}, hp1 \in {45, 20} }
    /\ rubble_segments = <<>>
    /\ pending_collapses = <<>>
    /\ tanks = <<>>
    /\ game = NewGame
    /\ session = NoSession
    /\ last = NoCollapseCall

\* world.schedule_building_collapse(building, delay)
ScheduleCall(k, delay) ==
    LET after == ScheduleBuildingCollapse(buildings, pending_collapses, k, delay)
    IN  /\ last.n < MaxCollapseCalls
        /\ buildings' = after[1]
        /\ pending_collapses' = after[2]
        /\ last' = [op |-> "schedule_building_collapse", n |-> last.n + 1,
                    building |-> k, collapsed |-> CollapsedBuildings,
                    pending |-> pending_collapses, returned |-> <<>>,
                    floor |-> -1, floors |-> <<>>]
        /\ UNCHANGED <<settings, height_map, rubble_segments, tanks, game, session>>

\* world.update_collapsing_buildings(dt)
UpdateCall(dt) ==
    /\ last.n < MaxCollapseCalls
    /\ \E run \in {UpdateCollapsingBuildings(height_map, settings, buildings,
                                             pending_collapses, dt)} :
           /\ height_map' = run[1]
           /\ buildings' = run[2]
           /\ pending_collapses' = run[3]
           /\ last' = [op |-> "update_collapsing_buildings", n |-> last.n + 1,
                       building |-> 0, collapsed |-> CollapsedBuildings,
                       pending |-> pending_collapses, returned |-> run[4],
                       floor |-> -1, floors |-> <<>>]
    /\ UNCHANGED <<settings, rubble_segments, tanks, game, session>>

\* game._apply_building_damage(result) for a result with hit_building k and
\* hit_building_floor floor_idx.
BuildingDamageCall(k, floor_idx) ==
    LET after == ApplyBuildingDamage(buildings, pending_collapses, game.damage,
                                     k, floor_idx)
    IN  /\ last.n < MaxCollapseCalls
        /\ buildings' = after[1]
        /\ pending_collapses' = after[2]
        /\ last' = [op |-> "apply_building_damage", n |-> last.n + 1,
                    building |-> k, collapsed |-> CollapsedBuildings,
                    pending |-> pending_collapses, returned |-> <<>>,
                    floor |-> floor_idx, floors |-> buildings[k].floors]
        /\ UNCHANGED <<settings, height_map, rubble_segments, tanks, game, session>>

NextCollapse ==
    \/ \E k \in 1..Len(buildings), delay \in CollapseDelays : ScheduleCall(k, delay)
    \/ \E dt \in CollapseSteps : UpdateCall(dt)
    \/ \E k \in 1..Len(buildings), floor_idx \in 0..1 : BuildingDamageCall(k, floor_idx)

SpecCollapse == InitCollapse /\ [][NextCollapse]_vars

-----------------------------------------------------------------------------
(* The collapse timers under the frames of the application: buildings are  *)
(* scheduled a bounded number of times and world.update_collapsing_buildings *)
(* runs on every frame.  last keeps, for each building, the dt accumulated *)
(* since it was scheduled, the delay it was scheduled with, whether a tick *)
(* has run since, and how many times it was returned.                      *)

MaxTimerCalls == 2

InPending(k) == \E i \in 1..Len(pending_collapses) : pending_collapses[i] = k

\* No accumulated time is recorded beyond the longest delay and one tick.
LongestWait ==
    (CHOOSE d \in CollapseDelays : \A other \in CollapseDelays : d >= other)
    + (CHOOSE dt \in CollapseSteps : \A other \in CollapseSteps : dt >= other)

\* A lane of 16 columns at one sub-cell a column, level at 12.0, with two
\* untouched buildings on it.
LaneSettings ==
    [width |-> 16, height |-> 20, detail |-> 1,
     min_height |-> 8000, max_height |-> 14000]

LaneMap == [hx \in 0..15 |-> 12000]

InitTimers ==
    /\ settings = LaneSettings
    /\ height_map = LaneMap
    /\ buildings = << Block(2000, height_map[3], 45, 45),
                      Block(9000, height_map[10], 45, 45) >>
    /\ rubble_segments = <<>>
    /\ pending_collapses = <<>>
    /\ tanks = <<>>
    /\ game = NewGame
    /\ session = NoSession
    /\ last = [op |-> "init", n |-> 0, returned |-> <<>>,
               elapsed |-> [k \in 1..2 |-> 0], delay |-> [k \in 1..2 |-> 0],
               ticked |-> [k \in 1..2 |-> FALSE], times |-> [k \in 1..2 |-> 0]]

\* world.schedule_building_collapse(building, delay): the timer of a building
\* that has not collapsed starts again from delay.
TimerSchedule(k, delay) ==
    LET after == ScheduleBuildingCollapse(buildings, pending_collapses, k, delay)
    IN  /\ last.n < MaxTimerCalls
        /\ buildings' = after[1]
        /\ pending_collapses' = after[2]
        /\ last' = IF buildings[k].collapsed
                   THEN [last EXCEPT !.op = "schedule_building_collapse",
                                     !.n = last.n + 1, !.returned = <<>>]
                   ELSE [last EXCEPT !.op = "schedule_building_collapse",
                                     !.n = last.n + 1, !.returned = <<>>,
                                     !.elapsed[k] = 0, !.delay[k] = delay,
                                     !.ticked[k] = FALSE]
        /\ UNCHANGED <<settings, height_map, rubble_segments, tanks, game, session>>

\* world.update_collapsing_buildings(dt), the tick of a frame.
TimerTick(dt) ==
    \E run \in {UpdateCollapsingBuildings(height_map, settings, buildings,
                                          pending_collapses, dt)} :
        /\ height_map' = run[1]
        /\ buildings' = run[2]
        /\ pending_collapses' = run[3]
        /\ last' = [last EXCEPT
                      !.op = "update_collapsing_buildings",
                      !.returned = run[4],
                      !.elapsed = [k \in 1..2 |->
                                      IF InPending(k) /\ ~buildings[k].collapsed
                                      THEN Min(last.elapsed[k] + dt, LongestWait)
                                      ELSE last.elapsed[k]],
                      !.ticked = [k \in 1..2 |-> last.ticked[k] \/ InPending(k)],
                      !.times = [k \in 1..2 |->
                                    Min(2, last.times[k] + Cardinality(
                                        { i \in 1..Len(run[4]) : run[4][i] = k }))]]
        /\ UNCHANGED <<settings, rubble_segments, tanks, game, session>>

NextTimers ==
    \/ \E k \in 1..Len(buildings), delay \in CollapseDelays : TimerSchedule(k, delay)
    \/ \E dt \in CollapseSteps : TimerTick(dt)

\* The application calls update_collapsing_buildings on every frame with the
\* frame's dt > 0 (app.py, PygameTanx._update), so ticks keep coming.
SpecTimers ==
    InitTimers /\ [][NextTimers]_vars
        /\ WF_vars(\E dt \in CollapseSteps : TimerTick(dt))

-----------------------------------------------------------------------------
(* Aiming: Tank.raise_turret, lower_turret, increase_power and             *)
(* decrease_power called with amounts of either sign on a tank with the    *)
(* dataclass defaults.                                                     *)

MaxAimCalls == 3

\* Degrees: the steps of the key handler (1 and 5), a step past the whole
\* range and a negative one.
TurretAmounts == {-10, 1, 5, 200}

\* Power: the steps of the key handler (0.02 and 0.1), a step past the whole
\* range and a negative one.
PowerAmounts == {-2000, 20, 100, 2000}

InitAim ==
    /\ settings = MatchSettings
    /\ height_map = FlatMap
    /\ buildings = <<>>
    /\ rubble_segments = <<>>
    /\ pending_collapses = <<>>
    /\ tanks = <<Standing(height_map, settings, 2, 1),
                 Standing(height_map, settings, 17, -1)>>
    /\ game = NewGame
    /\ session = NoSession
    /\ last = [op |-> "init", n |-> 0, t |-> 1, arg |-> 0, before |-> tanks[1]]

\* One of the four aiming calls on tank t; after is the tank the call leaves.
AimCall(op, t, arg, after) ==
    /\ last.n < MaxAimCalls
    /\ tanks' = [tanks EXCEPT ![t] = after]
    /\ last' = [op |-> op, n |-> last.n + 1, t |-> t, arg |-> arg,
                before |-> tanks[t]]
    /\ UNCHANGED <<settings, height_map, buildings, rubble_segments,
                   pending_collapses, game, session>>

\* tank.raise_turret(amount)
RaiseTurretCall(t, amount) ==
    AimCall("raise_turret", t, amount, RaiseTurret(tanks[t], amount))

\* tank.lower_turret(amount)
LowerTurretCall(t, amount) ==
    AimCall("lower_turret", t, amount, LowerTurret(tanks[t], amount))

\* tank.increase_power(amount)
IncreasePowerCall(t, amount) ==
    AimCall("increase_power", t, amount, IncreasePower(tanks[t], amount))

\* tank.decrease_power(amount)
DecreasePowerCall(t, amount) ==
    AimCall("decrease_power", t, amount, DecreasePower(tanks[t], amount))

NextAim ==
    \/ \E t \in 1..2, amount \in TurretAmounts : RaiseTurretCall(t, amount)
    \/ \E t \in 1..2, amount \in TurretAmounts : LowerTurretCall(t, amount)
    \/ \E t \in 1..2, amount \in PowerAmounts : IncreasePowerCall(t, amount)
    \/ \E t \in 1..2, amount \in PowerAmounts : DecreasePowerCall(t, amount)

SpecAim == InitAim /\ [][NextAim]_vars

-----------------------------------------------------------------------------
(* The computer opponent's ShotPlanner.  A plan is [angle, power,           *)
(* confidence, prediction]; the planner pl is [memory, experience], each a *)
(* tuple with one place per tank: the optional memory record [angle,       *)
(* power, score, impact] and the number of plans made for that shooter.    *)

\* ShotPlanner(angle_step = 15, power_step = 0.35, samples = 10)
angle_step == 15
planner_power_step == 350
samples == 10

\* ShotPlanner._clamp_angle, the angle in milli-degrees
ClampAngle(angle) ==
    Max(min_angle, Min(max_angle, RoundHalfEven(angle, Scale)))

\* ShotPlanner._clamp_power
ClampPower(power) == Max(min_power, Min(max_power, power))

ShotPlan(angle, power, confidence, prediction) ==
    [angle |-> angle, power |-> power, confidence |-> confidence,
     prediction |-> prediction]

\* ShotPlanner._select_primary_target: the first of the nearest targets.
SelectPrimaryTarget(ts, shooter, targets) ==
    LET dist(i) == Abs(ts[targets[i]].x - ts[shooter].x)
        i == CHOOSE i \in 1..Len(targets) :
                 /\ \A j \in 1..Len(targets) : dist(i) <= dist(j)
                 /\ \A j \in 1..(i - 1) : dist(j) > dist(i)
    IN  targets[i]

\* ShotPlanner._score_result, in milli-units.
ScoreResult(result, ts, targets) ==
    LET opponents == { targets[i] : i \in { j \in 1..Len(targets) : Alive(ts[targets[j]]) } }
        dist(t) == Hypot(ts[t].x * Scale - Val(result.impact)[1],
                         ts[t].y * Scale - Val(result.impact)[2])
        closest == CHOOSE d \in { dist(t) : t \in opponents } :
                       \A t \in opponents : d <= dist(t)
    IN  IF opponents = {} THEN 0
        ELSE IF result.hit_tank # 0 /\ result.hit_tank \in opponents THEN Scale
        ELSE IF IsNone(result.impact) THEN 0
        ELSE IF closest <= 500 THEN 950
        ELSE (Scale * Scale) \div (Scale + closest)

\* ShotPlanner._estimate_baseline: <<angle, power>>.
EstimateBaseline(w, shooter, target) ==
    LET dx == w.ts[target].x - w.ts[shooter].x
        distance == Max(1, Abs(dx))
        world_span == Max(1, w.st.width - 1)
        normalized == Min(1100, (distance * Scale * Scale) \div (world_span * 450))
        height_delta == w.ts[shooter].y - w.ts[target].y
        sloped == 18000 + normalized * 45 + height_delta * 600
                  + (IF height_delta < 0 THEN 4000 ELSE 0)
        base_angle == IF dx * w.ts[shooter].facing < 0
                      THEN (IF dx > 0 THEN max_angle ELSE min_angle) * Scale
                      ELSE sloped
        base_power == min_power
                      + (normalized * (max_power - min_power) * 85) \div (Scale * 100)
                      + height_delta * 10
    IN  <<ClampAngle(base_angle), ClampPower(base_power)>>

\* ShotPlanner._refine_from_history: the optional <<angle, power>>, the angle
\* in milli-degrees.
RefineFromHistory(w, shooter, target, memory) ==
    IF IsNone(memory.impact) THEN None
    ELSE
    LET dx == w.ts[target].x * Scale - Val(memory.impact)[1]
        dy == w.ts[target].y * Scale - Val(memory.impact)[2]
        distance == Hypot(dx, dy)
        span == Max(3000, Abs(w.ts[shooter].x - w.ts[target].x) * Scale + 10)
        adjust_factor == Min(1500, (distance * Scale) \div span)
        sign == IF dx > 0 THEN 1 ELSE -1
        angle_delta == angle_step * adjust_factor * sign
                       + (IF Abs(dy) > 4000 THEN Trunc(dy, 20) ELSE 0)
        power_delta == Trunc(planner_power_step * adjust_factor, Scale) * sign
    IN  IF distance < 500 THEN Some(<<memory.angle * Scale, memory.power>>)
        ELSE Some(<<memory.angle * Scale + angle_delta,
                    memory.power + Trunc(power_delta, 2)>>)

\* ShotPlanner._generate_candidates: the sequence of <<angle, power>> pairs.
\* With samples = 10 the suggestions from memory, the baseline and the
\* offsets around it fill the list and no random jitter is drawn.
GenerateCandidates(w, pl, shooter, target) ==
    LET base == EstimateBaseline(w, shooter, target)
        memory == pl.memory[shooter]
        history == IF IsNone(memory) THEN None
                   ELSE RefineFromHistory(w, shooter, target, Val(memory))
        remembered == IF IsNone(memory) THEN <<>>
                      ELSE (IF IsNone(history) THEN <<>> ELSE <<Val(history)>>)
                           \o << <<Val(memory).angle * Scale, Val(memory).power>> >>
        around == [i \in 1..15 |->
                     << (base[1] + (((i - 1) \div 3) - 2) * angle_step) * Scale,
                        base[2] + (((i - 1) % 3) - 1) * planner_power_step >>]
        suggestions == remembered \o << <<base[1] * Scale, base[2]>> >> \o around
    IN  [i \in 1..samples |->
            <<ClampAngle(suggestions[i][1]), ClampPower(suggestions[i][2])>>]

\* The loop over shots of find_best_shot and of _fallback_scan: every pair of
\* cands is set on the shooter and simulated, and the first shot with the
\* highest score is kept (a later shot replaces the best only with a higher
\* score; with impact_only the shots without an impact are passed over).
\* [best, tank]: the optional best plan and the shooter as the loop leaves it.
ScanShots(w, shooter, targets, cands, impact_only, tank) ==
    LET Simulated(i) ==
            LET aimed == [tank EXCEPT !.turret_angle = cands[i][1],
                                      !.shot_power = cands[i][2]]
            IN  (CHOOSE the \in { ShotPlan(cands[i][1], cands[i][2],
                                  ScoreResult(result, w.ts, targets), result) :
                           result \in {StepProjectile([w EXCEPT !.ts[shooter] = aimed],
                                                      shooter)} } : TRUE)
        Best(shots) ==
            LET scored == { i \in 1..Len(cands) :
                              ~(impact_only /\ IsNone(shots[i].prediction.impact)) }
            IN  IF scored = {} THEN None
                ELSE Some(shots[CHOOSE i \in scored :
                             /\ \A j \in scored :
                                    shots[j].confidence <= shots[i].confidence
                             /\ \A j \in scored :
                                    j < i => shots[j].confidence < shots[i].confidence])
    IN  [best |-> (CHOOSE the \in { Best(shots) :
                             shots \in {[i \in 1..Len(cands) |-> Simulated(i)]} } : TRUE),
         tank |-> IF cands = <<>> THEN tank
                  ELSE [tank EXCEPT !.turret_angle = cands[Len(cands)][1],
                                    !.shot_power = cands[Len(cands)][2]]]

\* ShotPlanner._power_samples
RECURSIVE PowerSamplesFrom(_, _)
PowerSamplesFrom(current, left) ==
    IF left = 0 THEN <<>>
    ELSE <<ClampPower(current)>>
         \o (IF current + planner_power_step > max_power THEN <<>>
             ELSE PowerSamplesFrom(current + planner_power_step, left - 1))

PowerSamples ==
    LET limit == Max(6, (max_power - min_power) \div Max(planner_power_step, 10))
        values == PowerSamplesFrom(min_power, limit + 1)
    IN  IF values[Len(values)] # max_power THEN Append(values, max_power)
        ELSE values

\* ShotPlanner._fallback_scan: the pairs in the order the loops try them.
FallbackPairs ==
    LET step == Max(2, angle_step)
        angles == (max_angle - min_angle) \div step + 1
        powers == Len(PowerSamples)
    IN  [i \in 1..(angles * powers) |->
            << min_angle + ((i - 1) \div powers) * step,
               PowerSamples[((i - 1) % powers) + 1] >>]

FallbackScan(w, shooter, targets, tank) ==
    ScanShots(w, shooter, targets, FallbackPairs, TRUE, tank)

\* ShotPlanner._apply_human_variance: [best, tank]; noise is the pair of
\* random draws, each as a fraction (in milli-units) of its variance.
ApplyHumanVariance(w, pl, shooter, targets, target, plan, tank, humanize, noise) ==
    IF ~humanize THEN [best |-> Some(plan), tank |-> tank]
    ELSE
    LET experience == pl.experience[shooter]
        recent == pl.memory[shooter]
        history_distance ==
            IF ~IsNone(recent) /\ ~IsNone(Val(recent).impact)
            THEN Hypot(w.ts[target].x * Scale - Val(Val(recent).impact)[1],
                       w.ts[target].y * Scale - Val(Val(recent).impact)[2])
            ELSE 999000
        close == history_distance < 4000
        angle_variance0 == Max(1500, 10000 - Min(experience, 6) * 1500)
        power_variance0 == Max(50, 450 - Min(experience, 6) * 50)
        angle_variance == IF close THEN (angle_variance0 * 4) \div 10 ELSE angle_variance0
        power_variance == IF close THEN (power_variance0 * 4) \div 10 ELSE power_variance0
        uncertainty == Max(250, 1200 - plan.confidence)
        angle_noise == Trunc(Trunc(noise[1] * angle_variance, Scale) * uncertainty, Scale)
        power_noise == Trunc(Trunc(noise[2] * power_variance, Scale) * uncertainty, Scale)
        angle0 == ClampAngle(plan.angle * Scale + angle_noise)
        power0 == ClampPower(plan.power + power_noise)
        angle == IF IsNone(recent) THEN angle0
                 ELSE RoundHalfEven(angle0 * 6 + Val(recent).angle * 4, 10)
        power == IF IsNone(recent) THEN power0
                 ELSE RoundHalfEven(power0 * 6 + Val(recent).power * 4, 10)
        aimed == [tank EXCEPT !.turret_angle = angle, !.shot_power = power]
    IN  (CHOOSE the \in { [best |-> IF IsNone(result.impact) THEN Some(plan)
                           ELSE Some(ShotPlan(angle, power,
                                              ScoreResult(result, w.ts, targets),
                                              result)),
                  tank |-> aimed] :
                   result \in {StepProjectile([w EXCEPT !.ts[shooter] = aimed],
                                              shooter)} } : TRUE)

\* find_best_shot, the body of the try block for a list of targets that is
\* not empty: [plan, tank, planner], the plan returned (None when the
\* fallback scan finds nothing), the shooter as the body leaves it and the
\* planner with the plan remembered.
PlanShot(w, pl, shooter, targets, humanize, noise) ==
    LET target == SelectPrimaryTarget(w.ts, shooter, targets)
        Remembered(final) ==
            [plan |-> final.best,
             tank |-> final.tank,
             planner |->
                 [memory |-> [pl.memory EXCEPT ![shooter] =
                                 Some([angle |-> Val(final.best).angle,
                                       power |-> Val(final.best).power,
                                       score |-> Val(final.best).confidence,
                                       impact |-> Val(final.best).prediction.impact])],
                  experience |-> [pl.experience EXCEPT ![shooter] = @ + 1]]]
        Chosen(scan) ==
            IF IsNone(scan.best)
            THEN [plan |-> None, tank |-> scan.tank, planner |-> pl]
            ELSE (CHOOSE the \in { Remembered(final) :
                            final \in {ApplyHumanVariance(w, pl, shooter, targets,
                                            target, Val(scan.best), scan.tank,
                                            humanize, noise)} } : TRUE)
        Scanned(tried) ==
            IF IsNone(tried.best) \/ IsNone(Val(tried.best).prediction.impact)
            THEN (CHOOSE the \in { Chosen(scan) :
                            scan \in {FallbackScan(w, shooter, targets, tried.tank)} } : TRUE)
            ELSE Chosen(tried)
    IN  (CHOOSE the \in { Scanned(tried) :
                   tried \in { ScanShots(w, shooter, targets, candidates,
                                         FALSE, w.ts[shooter]) :
                                  candidates \in {GenerateCandidates(w, pl, shooter,
                                                                     target)} } } : TRUE)

\* A find_best_shot without the finally clause: the shooter keeps the aim of
\* the last shot tried.
FindBestShotNoRestore(w, pl, shooter, targets, humanize, noise) ==
    IF targets = <<>>
    THEN [plan |-> None, tank |-> w.ts[shooter], planner |-> pl]
    ELSE PlanShot(w, pl, shooter, targets, humanize, noise)

\* ShotPlanner.find_best_shot(game, shooter, targets): [plan, tank, planner].
FindBestShot(w, pl, shooter, targets, humanize, noise) ==
    IF targets = <<>>
    THEN [plan |-> None, tank |-> w.ts[shooter], planner |-> pl]
    ELSE LET original_state == w.ts[shooter]
         IN  (CHOOSE the \in { [planned EXCEPT
                         !.tank = [planned.tank EXCEPT
                             !.turret_angle = original_state.turret_angle,
                             !.shot_power = original_state.shot_power,
                             !.last_command = original_state.last_command]] :
                        planned \in {PlanShot(w, pl, shooter, targets,
                                              humanize, noise)} } : TRUE)

MaxPlannerCalls == 2

NoiseDraws == {<<-1000, 500>>, <<700, -1000>>}

NewPlanner == [memory |-> <<None, None>>, experience |-> <<0, 0>>]

\* Matches in which a plan is asked for: the duel on level ground, the duel
\* with the second tank beside the cliff or on the first column, its back to
\* the world, and the duel across the building.
InitPlanner ==
    /\ settings = MatchSettings
    /\ \/ /\ height_map = FlatMap
          /\ buildings = <<>>
          /\ tanks \in { << Aimed(height_map, settings, 4, 1, 100, 45, 600),
                            Aimed(height_map, settings, x2, -1, hp2, 45, 1000) >> :
                           x2 \in {0, 1, 8, 17}, hp2 \in {100, 0} }
       \/ /\ height_map = SteppedMap
          /\ buildings = <<Tower(height_map[14], 45, 45, 45)>>
          /\ tanks \in { << Aimed(height_map, settings, 5, 1, 100, -15, 600),
                            Aimed(height_map, settings, x2, -1, 100, 45, 1000) >> :
                           x2 \in {12, 17} }
    /\ rubble_segments = <<>>
    /\ pending_collapses = <<>>
    /\ game = NewGame
    /\ session = NoSession
    /\ last = [op |-> "init", n |-> 0, shooter |-> 0, targets |-> <<>>,
               plan |-> None, planner |-> NewPlanner,
               tanks |-> tanks, height_map |-> height_map]

\* planner.find_best_shot(game, shooter, targets) with the living opponents
\* for targets, as ComputerOpponent._compute_plan calls it, or with the
\* opponent whatever its state, or with no targets.
FindBestShotCall(shooter, targets, humanize, noise) ==
    /\ last.n < MaxPlannerCalls
    /\ \E found \in {FindBestShot(TheWorld, last.planner, shooter, targets,
                                  humanize, noise)} :
           /\ tanks' = [tanks EXCEPT ![shooter] = found.tank]
           /\ last' = [op |-> "find_best_shot", n |-> last.n + 1,
                       shooter |-> shooter, targets |-> targets,
                       plan |-> found.plan, planner |-> found.planner,
                       tanks |-> tanks, height_map |-> height_map]
    /\ UNCHANGED <<settings, height_map, buildings, rubble_segments,
                   pending_collapses, game, session>>

\* ComputerOpponent._apply_plan: the plan just made is set on the shooter.
ApplyPlanCall ==
    /\ last.n < MaxPlannerCalls
    /\ last.op = "find_best_shot"
    /\ ~IsNone(last.plan)
    /\ tanks' = [tanks EXCEPT ![last.shooter] =
                    [@ EXCEPT !.turret_angle = Val(last.plan).angle,
                              !.shot_power = Val(last.plan).power,
                              !.last_command = "aim"]]
    /\ last' = [last EXCEPT !.op = "apply_plan", !.n = last.n + 1,
                            !.tanks = tanks, !.height_map = height_map]
    /\ UNCHANGED <<settings, height_map, buildings, rubble_segments,
                   pending_collapses, game, session>>

NextPlanner ==
    \/ \E shooter \in 1..2 : \E targets \in {<<>>, <<3 - shooter>>} :
           \/ FindBestShotCall(shooter, targets, FALSE, <<0, 0>>)
           \/ \E noise \in NoiseDraws :
                  FindBestShotCall(shooter, targets, TRUE, noise)
    \/ ApplyPlanCall

SpecPlanner == InitPlanner /\ [][NextPlanner]_vars

-----------------------------------------------------------------------------
(* Game.step_projectile as a function of the battlefield and the aim: the  *)
(* shooter is aimed and the shot simulated with apply_effects = False.     *)

MaxTrajectories == 1

\* The default width of TerrainSettings over level ground.
RangeSettings ==
    [width |-> 48, height |-> 20, detail |-> 2,
     min_height |-> 8000, max_height |-> 14000]

RangeMap == [hx \in 0..95 |-> 12000]

TrajectoryAngles == {-15, 0, 45, 75}
TrajectoryPowers == {400, 1000, 1800}

InitBallistics ==
    /\ \/ /\ settings = RangeSettings
          /\ height_map = RangeMap
          /\ buildings = <<>>
          /\ rubble_segments = <<>>
          /\ game \in { [NewGame EXCEPT !.gravity = g] : g \in {0, 350} }
          /\ tanks \in { << Standing(height_map, settings, 2, 1),
                            Standing(height_map, settings, x2, -1) >> :
                           x2 \in {8, 45} }
       \/ /\ settings = MatchSettings
          /\ height_map = SteppedMap
          /\ buildings = <<Tower(height_map[14], 45, 45, 45)>>
          /\ rubble_segments = <<Mound>>
          /\ game = NewGame
          /\ tanks \in { << Standing(height_map, settings, 2, 1),
                            Standing(height_map, settings, x2, -1) >> :
                           x2 \in {10, 17} }
    /\ pending_collapses = <<>>
    /\ session = NoSession
    /\ last = [op |-> "init", n |-> 0, shooter |-> 0, result |-> NoShot]

\* shooter.turret_angle = angle; shooter.shot_power = power;
\* game.step_projectile(shooter, apply_effects=False)
StepProjectileCall(shooter, angle, power) ==
    /\ last.n < MaxTrajectories
    /\ \E aimed \in {[tanks EXCEPT ![shooter].turret_angle = angle,
                                    ![shooter].shot_power = power]} :
         \E result \in {StepProjectile([TheWorld EXCEPT !.ts = aimed], shooter)} :
           /\ tanks' = aimed
           /\ last' = [op |-> "step_projectile", n |-> last.n + 1,
                       shooter |-> shooter, result |-> result]
    /\ UNCHANGED <<settings, height_map, buildings, rubble_segments,
                   pending_collapses, game, session>>

NextBallistics ==
    \E shooter \in 1..2, angle \in TrajectoryAngles, power \in TrajectoryPowers :
        StepProjectileCall(shooter, angle, power)

SpecBallistics == InitBallistics /\ [][NextBallistics]_vars

-----------------------------------------------------------------------------
(* Claims about terrain carving and the surface queries.                   *)

SpanOf(st, cx, radius) == CarveStart(st, cx, radius)..CarveEnd(st, cx, radius)

C2_Idempotent ==
    last.op = "carve_circle" =>
        CarveCircle(height_map, settings, last.cx, last.cy, last.radius) = height_map

\* C3 as stated: for every in-bounds column x, is_solid(x, surface_y(x)) is
\* false and is_solid(x, surface_y(x) + 1) is true.
C3_SurfaceSolid ==
    \A x \in 0..(settings.width - 1) :
        LET surface == Val(SurfaceY(height_map, settings, x))
        IN  /\ ~IsSolid(height_map, settings, x, surface)
            /\ IsSolid(height_map, settings, x, surface + 1)

-----------------------------------------------------------------------------
(* Claims about the tank.                                                  *)

\* C4: move returns true if and only if the destination column x + direction
\* is inside [0, width), is not blocked, has a surface, and that surface is
\* within one row of the tank's y; on success the tank stands at
\* (destination, surface_y(destination)), on failure x and y are unchanged.
C4_MoveWalkability ==
    last.op = "move" =>
        LET was == last.before
            now == tanks[last.t]
            dest == was.x + last.arg
            surface == SurfaceY(height_map, settings, dest)
            walkable ==
                /\ 0 <= dest /\ dest < settings.width
                /\ ~IsColumnBlocked(buildings, rubble_segments, dest, FALSE)
                /\ ~IsNone(surface)
                /\ Abs(Val(surface) - was.y) <= 1
        IN  /\ last.ret <=> walkable
            /\ last.ret => (now.x = dest /\ now.y = Val(surface))
            /\ ~last.ret => (now.x = was.x /\ now.y = was.y)

\* C4 witnesses: a move that succeeded onto a surface one row off, and moves
\* refused by the world edge, by a building and by a cliff.
C4_Witness ==
    /\ last.op = "move" /\ last.ret
    /\ tanks[last.t].y # last.before.y

C4_WitnessRefused ==
    /\ last.op = "move" /\ ~last.ret
    /\ LET dest == last.before.x + last.arg
       IN  /\ 0 <= dest /\ dest < settings.width
           /\ ~IsColumnBlocked(buildings, rubble_segments, dest, FALSE)

-----------------------------------------------------------------------------
(* Claims about shots.  last holds the shooter, the ShotResult and the     *)
(* tanks, buildings, rubble and height map the shot was fired at.          *)

\* The tank a path point is within 0.6 of in both axes (alive when the shot
\* was fired, not the shooter), and the structure the point is inside.
TankNear(p) == TankAt(last.tanks, last.shooter, p[1], p[2])
BuildingAt(p) == BuildingHitTest(last.buildings, p[1], p[2])[1]
RubbleAt(p) == RubbleHitTest(last.rubble_segments, p[1], p[2])

InsideWorld(p) ==
    /\ 0 <= p[1] /\ p[1] < settings.width * Scale
    /\ 0 <= p[2] /\ p[2] < settings.height * Scale

\* C6: a ShotResult never has more than one of hit_building, hit_rubble and
\* hit_tank set, and a step whose point is inside a building floor and
\* within 0.6 of a living tank other than the shooter in both axes is the
\* last step of the path, with hit_building set to that building and
\* hit_tank null.
C6_Precedence ==
    last.op = "fire" =>
        LET r == last.result
        IN  /\ Cardinality({ k \in {"building", "rubble", "tank"} :
                               \/ k = "building" /\ r.hit_building # 0
                               \/ k = "rubble" /\ r.hit_rubble # 0
                               \/ k = "tank" /\ r.hit_tank # 0 }) <= 1
            /\ \A i \in 1..Len(r.path) :
                   (BuildingAt(r.path[i]) # 0 /\ TankNear(r.path[i]) # 0) =>
                       /\ i = Len(r.path)
                       /\ r.hit_building = BuildingAt(r.path[i])
                       /\ r.hit_tank = 0
                       /\ r.impact = Some(r.path[i])

\* C6 witness: a shot whose last point is inside a floor of the building and
\* within 0.6 of the other, living tank.
C6_Witness ==
    /\ last.op = "fire"
    /\ Len(last.result.path) > 0
    /\ LET p == last.result.path[Len(last.result.path)]
       IN  BuildingAt(p) # 0 /\ TankNear(p) # 0
    /\ last.result.hit_building # 0

\* The case of test_step_projectile_direct_hit: level ground, no structures,
\* no gravity, the shooter on column 4 facing right with turret_angle 0 and
\* shot_power 0.6, the target on column 8 with hp 100, damage 25.
FlatCase ==
    /\ last.op = "fire" /\ last.shooter = 1
    /\ last.height_map = FlatMap /\ last.buildings = <<>>
    /\ last.rubble_segments = <<>>
    /\ game.gravity = 0 /\ game.damage = 25
    /\ last.tanks[1].x = 4 /\ last.tanks[1].facing = 1
    /\ last.tanks[1].turret_angle = 0 /\ last.tanks[1].shot_power = 600
    /\ last.tanks[2].x = 8 /\ last.tanks[2].hp = 100

\* C8 as stated: a path point within 0.6 of a living tank other than the
\* shooter, with no structure at it, makes that tank the hit_tank; the hit
\* tank's hp drops by exactly Game.damage and fatal_hit is false whenever its
\* hp stays above 0; the flat-terrain case gives hit_tank = target, hp 75,
\* fatal_hit false.
C8_DirectHit ==
    last.op = "fire" =>
        LET r == last.result
            t == r.hit_tank
        IN  /\ \A i \in 1..Len(r.path) :
                   (TankNear(r.path[i]) # 0 /\ BuildingAt(r.path[i]) = 0
                        /\ RubbleAt(r.path[i]) = 0) =>
                       t = TankNear(r.path[i])
            /\ t # 0 => /\ tanks[t].hp = last.tanks[t].hp - game.damage
                        /\ (tanks[t].hp > 0 => ~r.fatal_hit)
            /\ FlatCase => (t = 2 /\ tanks[2].hp = 75 /\ ~r.fatal_hit)

\* C8 amended: a path point inside the world that is within 0.6 of a living
\* tank other than the shooter, with no structure at it, makes that tank the
\* hit_tank; the hit tank's hp becomes max(0, hp - Game.damage), no other
\* tank's hp changes, and fatal_hit is true exactly when the hit tank's hp
\* reached 0; the flat-terrain case gives hit_tank = target, hp 75, fatal_hit
\* false.
C8_DirectHitFloored ==
    last.op = "fire" =>
        LET r == last.result
            t == r.hit_tank
        IN  /\ \A i \in 1..Len(r.path) :
                   (InsideWorld(r.path[i]) /\ TankNear(r.path[i]) # 0
                        /\ BuildingAt(r.path[i]) = 0 /\ RubbleAt(r.path[i]) = 0) =>
                       (t = TankNear(r.path[i]) /\ i = Len(r.path))
            /\ t # 0 => /\ t # last.shooter /\ Alive(last.tanks[t])
                        /\ tanks[t].hp = Max(0, last.tanks[t].hp - game.damage)
                        /\ \A o \in 1..2 : o # t => tanks[o].hp = last.tanks[o].hp
                        /\ r.fatal_hit <=> tanks[t].hp = 0
                        /\ r.fatal_hit => r.fatal_tank = t
            /\ FlatCase => (t = 2 /\ tanks[2].hp = 75 /\ ~r.fatal_hit)

\* C8 witness: the flat-terrain case fired, a direct hit on the target.
C8_Witness ==
    /\ FlatCase
    /\ last.result.hit_tank = 2
    /\ tanks[2].hp = 75

\* A direct hit on a tank with less hp than the damage of a shot.
C8_WitnessFloored ==
    /\ last.op = "fire" /\ last.result.hit_tank # 0
    /\ last.tanks[last.result.hit_tank].hp < game.damage
    /\ tanks[last.result.hit_tank].hp = 0 /\ last.result.fatal_hit

\* A shot that hit floor 0 of a building while it was intact and brought its
\* hp to 0.
DestroyedGroundFloor ==
    /\ last.op = "fire"
    /\ last.result.hit_building # 0
    /\ last.result.hit_building_floor = 0
    /\ Len(buildings[last.result.hit_building].floors) = 3
    /\ ~last.buildings[last.result.hit_building].floors[1].destroyed
    /\ buildings[last.result.hit_building].floors[1].hp = 0

\* C9 as stated: when a shot destroys floor 0 of a 3-floor building, floors 1
\* and 2 end with hp 0 and destroyed, and the building is scheduled for
\* collapse with collapse_timer = 1.2, whether or not floor 0 was the last
\* intact floor.
C9_SupportFailure ==
    DestroyedGroundFloor =>
        LET k == last.result.hit_building
        IN  /\ \A i \in 2..3 : /\ buildings[k].floors[i].hp = 0
                               /\ buildings[k].floors[i].destroyed
            /\ \E i \in 1..Len(pending_collapses) : pending_collapses[i] = k
            /\ buildings[k].collapse_timer = 1200

\* What the code does in the case of C9: the floors above are destroyed and
\* the collapse is scheduled with collapse_timer = 0.8.
C9_CollapseAfterShortDelay ==
    DestroyedGroundFloor =>
        LET k == last.result.hit_building
        IN  /\ \A i \in 2..3 : /\ buildings[k].floors[i].hp = 0
                               /\ buildings[k].floors[i].destroyed
            /\ \E i \in 1..Len(pending_collapses) : pending_collapses[i] = k
            /\ buildings[k].collapse_timer = 800

-----------------------------------------------------------------------------
(* Claims about the session and about construction.                        *)

AliveTanks == { t \in 1..Len(tanks) : Alive(tanks[t]) }

ReevaluatedVictory ==
    \/ last.op = "attempt_move" /\ last.ret
    \/ last.op = "resolve_projectile"
    \/ last.op = "complete_superpower"

\* C7: after a successful attempt_move, a resolve_projectile and a
\* complete_superpower, session.winner is set if and only if exactly one
\* tank has hp > 0, and it is then that tank; with no tank alive winner is
\* None.
C7_VictoryExclusive ==
    ReevaluatedVictory =>
        /\ session.winner # 0 <=> Cardinality(AliveTanks) = 1
        /\ session.winner # 0 => session.winner \in AliveTanks

\* C7 witness: a projectile resolved with a fatal hit, the other tank the
\* winner.
C7_Witness ==
    /\ last.op = "resolve_projectile" /\ last.ret
    /\ Cardinality(AliveTanks) = 1
    /\ session.winner \in AliveTanks

\* A superpower that ended with no tank left: a draw.
C7_WitnessDraw ==
    /\ ReevaluatedVictory
    /\ AliveTanks = {}
    /\ session.winner = 0

\* C10 as stated: for every world for which Game construction succeeds,
\* both tanks have 0 <= x < width and y = surface_y(x), stand on a column
\* that is not blocked, and the left tank's x is less than the right tank's.
C10_SpawnValid ==
    last.op = "Game" =>
        /\ \A t \in 1..2 :
               /\ 0 <= tanks[t].x /\ tanks[t].x < settings.width
               /\ Some(tanks[t].y) = SurfaceY(height_map, settings, tanks[t].x)
               /\ ~IsColumnBlocked(buildings, rubble_segments, tanks[t].x, TRUE)
        /\ tanks[1].x < tanks[2].x

\* C10 amended: for every world for which Game construction succeeds, both
\* tanks have 0 <= x < width and y = surface_y(x) and stand on a column that
\* is not blocked; the left tank's x is less than the right tank's when the
\* width is 6 or more, and at a width of 3, 4 or 5, where construction
\* succeeds as well, it is not.
C10_SpawnValidFromWidthSix ==
    last.op = "Game" =>
        /\ \A t \in 1..2 :
               /\ 0 <= tanks[t].x /\ tanks[t].x < settings.width
               /\ Some(tanks[t].y) = SurfaceY(height_map, settings, tanks[t].x)
               /\ ~IsColumnBlocked(buildings, rubble_segments, tanks[t].x, TRUE)
        /\ settings.width >= 6 <=> tanks[1].x < tanks[2].x

\* C10 witness: a Game constructed on a world with a building between the
\* spawn columns.
C10_Witness ==
    /\ last.op = "Game"
    /\ buildings # <<>>
    /\ tanks[1].x < tanks[2].x

-----------------------------------------------------------------------------
(* Claims about the projectile playback of GameSession.                    *)

\* C11: a begin_projectile issued while a projectile is animating changes
\* nothing of the shot in flight: projectile_result, projectile_index,
\* projectile_timer and active_shooter stay as they were.
C11_FireWhileAnimating ==
    [][ (last'.op = "begin_projectile" /\ last'.n = last.n + 1
         /\ IsAnimatingProjectile)
        => /\ session'.projectile_result = session.projectile_result
           /\ session'.projectile_index = session.projectile_index
           /\ session'.projectile_timer = session.projectile_timer
           /\ session'.active_shooter = session.active_shooter ]_vars

-----------------------------------------------------------------------------
(* Claims about the collapse of buildings.                                 *)

\* The number of places of the pending-collapse list that hold building k.
TimesPending(k) ==
    Cardinality({ i \in 1..Len(pending_collapses) : pending_collapses[i] = k })

\* C12: after any sequence of schedule_building_collapse and
\* update_collapsing_buildings calls every building is in the pending list
\* once at most, and a schedule_building_collapse for a building that has
\* collapsed leaves the list as it was.
C12_ScheduledOnce ==
    /\ \A k \in 1..Len(buildings) : TimesPending(k) <= 1
    /\ (last.op = "schedule_building_collapse" /\ last.building \in last.collapsed)
           => pending_collapses = last.pending

\* C12 witness: a schedule_building_collapse for a building that was pending
\* already, while another building has collapsed.
C12_Witness ==
    /\ last.op = "schedule_building_collapse"
    /\ \E i \in 1..Len(last.pending) : last.pending[i] = last.building
    /\ TimesPending(last.building) = 1
    /\ CollapsedBuildings # {}

\* A schedule_building_collapse for a building that has collapsed.
C12_WitnessCollapsed ==
    /\ last.op = "schedule_building_collapse"
    /\ last.building \in last.collapsed

\* C13: a collapsed building has every floor destroyed with hp 0, is not
\* unstable and is not pending; a building that was collapsed before a call
\* is collapsed after it.
C13_CollapseTerminal ==
    /\ \A k \in CollapsedBuildings :
           /\ \A i \in 1..Len(buildings[k].floors) :
                  buildings[k].floors[i].destroyed /\ buildings[k].floors[i].hp = 0
           /\ ~buildings[k].unstable
           /\ TimesPending(k) = 0
    /\ last.collapsed \subseteq CollapsedBuildings

\* C13 witness: a schedule or a hit on a building that had collapsed and
\* stays collapsed.
C13_Witness ==
    /\ last.op \in {"schedule_building_collapse", "apply_building_damage"}
    /\ last.building \in last.collapsed
    /\ last.building \in CollapsedBuildings

-----------------------------------------------------------------------------
(* Claims about shots at damaged buildings.                                *)

\* The point (x, y) is inside the bounds of the 0-based floor idx of building
\* b, with 0.15 to spare at the sides and 0.05 above and below, whether the
\* floor is destroyed or not.
InFloorBounds(b, idx, x, y) ==
    LET floor_bottom == FloorBottom(b, idx)
        floor_top == floor_bottom - b.floors[idx + 1].height
    IN  /\ b.left - 150 <= x /\ x <= b.right + 150
        /\ Min(floor_top, floor_bottom) - 50 <= y
        /\ y <= Max(floor_top, floor_bottom) + 50

\* C14: a shot whose point, inside the world, is in the bounds of a floor of
\* a building that has not collapsed ends there with that building as its
\* hit_building, whether the floor is destroyed or not.
C14_DestroyedFloorHit ==
    last.op = "fire" =>
        LET r == last.result
        IN  \A i \in 1..Len(r.path), k \in 1..Len(last.buildings) :
                ( /\ InsideWorld(r.path[i])
                  /\ ~last.buildings[k].collapsed
                  /\ \E idx \in 0..(Len(last.buildings[k].floors) - 1) :
                         InFloorBounds(last.buildings[k], idx,
                                       r.path[i][1], r.path[i][2]) )
                => /\ i = Len(r.path)
                   /\ r.hit_building = k

-----------------------------------------------------------------------------
(* Claims about the range of the terrain.                                  *)

\* C15: after construction and after every carve_circle call every value of
\* the height map lies within [min_height, max_height].
C15_HeightsInRange ==
    \A hx \in DOMAIN height_map :
        settings.min_height <= height_map[hx] /\ height_map[hx] <= settings.max_height

-----------------------------------------------------------------------------
(* Claims about aiming.                                                    *)

\* C16: after any sequence of raise_turret, lower_turret, increase_power and
\* decrease_power calls with any amounts, min_angle <= turret_angle <=
\* max_angle and min_power <= shot_power <= max_power for every tank.
C16_AimInRange ==
    \A t \in 1..Len(tanks) :
        /\ min_angle <= tanks[t].turret_angle /\ tanks[t].turret_angle <= max_angle
        /\ min_power <= tanks[t].shot_power /\ tanks[t].shot_power <= max_power

\* The turret alone stays in range, whatever the amounts.
C16_TurretInRange ==
    \A t \in 1..Len(tanks) :
        min_angle <= tanks[t].turret_angle /\ tanks[t].turret_angle <= max_angle

-----------------------------------------------------------------------------
(* Claims about the shot planner.                                          *)

\* C17: find_best_shot leaves the shooter's turret_angle, shot_power and
\* last_command, every tank's hp and the height map as they were before the
\* call, whether it returns a plan or None, and returns None for an empty
\* list of targets.
C17_PlannerOracle ==
    last.op = "find_best_shot" =>
        /\ tanks[last.shooter].turret_angle = last.tanks[last.shooter].turret_angle
        /\ tanks[last.shooter].shot_power = last.tanks[last.shooter].shot_power
        /\ tanks[last.shooter].last_command = last.tanks[last.shooter].last_command
        /\ \A t \in 1..Len(tanks) : tanks[t].hp = last.tanks[t].hp
        /\ height_map = last.height_map
        /\ last.targets = <<>> => IsNone(last.plan)

\* C17 witness: a plan found by the candidates whose aim is not the shooter's.
C17_Witness ==
    /\ last.op = "find_best_shot"
    /\ ~IsNone(last.plan)
    /\ Val(last.plan).angle # tanks[last.shooter].turret_angle
    /\ Val(last.plan).power # tanks[last.shooter].shot_power

\* A call that found no plan for a target: every shot of the fallback scan
\* left the world.
C17_WitnessNoPlan ==
    /\ last.op = "find_best_shot"
    /\ last.targets # <<>>
    /\ IsNone(last.plan)

\* A plan found by the fallback scan: none of the candidates has an impact.
C17_WitnessFallback ==
    /\ last.op = "find_best_shot"
    /\ ~IsNone(last.plan)
    /\ LET w == [TheWorld EXCEPT !.ts = last.tanks]
           target == SelectPrimaryTarget(last.tanks, last.shooter, last.targets)
           candidates == GenerateCandidates(w, NewPlanner, last.shooter, target)
       IN  /\ last.n = 1
           /\ \A i \in 1..Len(candidates) :
                  IsNone(StepProjectile(
                            [w EXCEPT !.ts[last.shooter].turret_angle = candidates[i][1],
                                      !.ts[last.shooter].shot_power = candidates[i][2]],
                            last.shooter).impact)

\* A call with no targets.
C17_WitnessNoTargets ==
    /\ last.op = "find_best_shot"
    /\ last.targets = <<>>


\* A ShotResult with an impact point and no building, rubble or tank hit: the
\* projectile came down on terrain.
TerrainImpact(result) ==
    /\ ~IsNone(result.impact)
    /\ result.hit_building = 0
    /\ result.hit_rubble = 0
    /\ result.hit_tank = 0

C18_WitnessNoImpact == last.op = "fire" /\ IsNone(last.result.impact)

C18_WitnessTankHit == last.op = "fire" /\ last.result.hit_tank # 0

C18_WitnessBuildingHit == last.op = "fire" /\ last.result.hit_building # 0

C18_WitnessRubbleHit == last.op = "fire" /\ last.result.hit_rubble # 0

\* The step that finished the playback of the shot last begun, returning the
\* result that begin_projectile returned.
FinishedWithFired ==
    /\ last.op = "update_projectile"
    /\ last.finished
    /\ last.result = last.fired

\* C19: after begin_projectile, update_projectile calls with dt > 0 lead to a
\* step with finished = true whose result is the ShotResult begin_projectile
\* returned; a shot finishes at most once and is_animating_projectile() is
\* false from then on (until the next shot is begun); an update_projectile
\* call with no projectile pending returns finished = false and changes no
\* session state.
C19_PlaybackFinishes ==
    /\ IsAnimatingProjectile ~> FinishedWithFired
    /\ [](/\ last.finishes <= 1
          /\ (last.op = "update_projectile" /\ last.finished) => last.result = last.fired
          /\ last.finishes = 1 => ~IsAnimatingProjectile)
    /\ [][(last'.op = "update_projectile" /\ ~IsAnimatingProjectile)
             => (session' = session /\ ~last'.finished)]_vars

\* C19 witnesses: a shot whose playback took more than one update_projectile
\* call before the step that finished it, and an update_projectile call made
\* after that with no projectile pending.
C19_Witness ==
    /\ FinishedWithFired
    /\ \A dt \in PlaybackTimes :
           Len(Val(last.fired).path) * projectile_interval > dt

C19_WitnessIdleUpdate ==
    /\ last.op = "update_projectile"
    /\ ~last.animating
    /\ last.finishes = 1

\* What a shot in flight is to leave alone until it is resolved: every
\* tank's hp and position, the height map, the floors of the buildings and
\* the player to move.
Battlefield(ts, hm, bs, s) ==
    [hp |-> [t \in DOMAIN ts |-> ts[t].hp],
     at |-> [t \in DOMAIN ts |-> <<ts[t].x, ts[t].y>>],
     height_map |-> hm,
     floors |-> [k \in DOMAIN bs |-> bs[k].floors],
     current_player |-> s.current_player]

\* C20 as stated: between begin_projectile and resolve_projectile, across any
\* number of update_projectile calls, no tank hp, tank position, height map
\* value, building floor state or current_player changes: every step that
\* ends with the projectile still in flight left all of them as they were.
C20_NothingChangesInFlight ==
    [][IsAnimatingProjectile' =>
          Battlefield(tanks', height_map', buildings', session') =
          Battlefield(tanks, height_map, buildings, session)]_vars

-----------------------------------------------------------------------------
(* Claims about the floors of the buildings.                               *)

\* C21: in every reachable state and for every building the destroyed floors
\* are closed upwards: when floor i is destroyed every floor j > i is
\* destroyed with hp = 0.
C21_DestroyedUpwardClosed ==
    \A k \in DOMAIN buildings :
        \A i, j \in DOMAIN buildings[k].floors :
            (i < j /\ buildings[k].floors[i].destroyed) =>
                (buildings[k].floors[j].destroyed /\ buildings[k].floors[j].hp = 0)

\* C21 witness: the first call is a hit that destroys the ground floor of the
\* first building, whose upper floor stood untouched until then and is
\* destroyed with it, the building still standing.
C21_Witness ==
    /\ last.op = "apply_building_damage"
    /\ last.n = 1
    /\ last.building = 1
    /\ ~buildings[1].collapsed
    /\ buildings[1].floors[1].destroyed
    /\ buildings[1].floors[2].destroyed

\* C22: for every floor, under any sequence of hits, cascades and collapses,
\* hp never rises and is never negative, destroyed is true if and only if
\* hp = 0, a destroyed floor stays destroyed, and a hit on a floor that is
\* already destroyed changes nothing in its building.
C22_FloorMonotonic ==
    /\ [](\A k \in DOMAIN buildings : \A i \in DOMAIN buildings[k].floors :
             /\ buildings[k].floors[i].hp >= 0
             /\ buildings[k].floors[i].destroyed <=> buildings[k].floors[i].hp = 0)
    /\ [][\A k \in DOMAIN buildings : \A i \in DOMAIN buildings[k].floors :
             /\ buildings'[k].floors[i].hp <= buildings[k].floors[i].hp
             /\ buildings[k].floors[i].destroyed => buildings'[k].floors[i].destroyed]_vars
    /\ [][\A k \in DOMAIN buildings : \A floor_idx \in 0..1 :
             (BuildingDamageCall(k, floor_idx)
                 /\ buildings[k].floors[floor_idx + 1].destroyed)
             => (buildings' = buildings /\ pending_collapses' = pending_collapses)]_vars

\* C22 witnesses: the first call is a hit that takes the last 20 hit points
\* of the upper floor of the second building with a damage of 25, the floor
\* ending destroyed at hp 0 over an intact ground floor; and a hit on a floor
\* that was destroyed already, its building still standing.
C22_Witness ==
    /\ last.op = "apply_building_damage"
    /\ last.n = 1
    /\ last.building = 2
    /\ buildings[2].floors[2].destroyed
    /\ buildings[2].floors[2].hp = 0
    /\ ~buildings[2].floors[1].destroyed

C22_WitnessHitOnDestroyed ==
    /\ last.op = "apply_building_damage"
    /\ last.floors[last.floor + 1].destroyed
    /\ ~buildings[last.building].collapsed

-----------------------------------------------------------------------------
(* Claims about the trajectory.                                            *)

\* step_projectile, line 123: the point has left the world.
LeftWorld(p) ==
    p[1] < 0 \/ p[1] >= settings.width * Scale \/ p[2] >= settings.height * Scale

\* step_projectile, lines 125-150: the point registers a hit.
RegistersHit(shooter, p) ==
    p[2] >= 0 /\ HitAt(TheWorld, shooter, p[1], p[2])[5]

\* C23: step_projectile returns a path of at least 1 and at most 360 points;
\* the loop stops at the first point that leaves the world or registers a
\* hit, so every point before the last is inside the world without a hit;
\* the impact point, when set, is the last point of the path, and it is null
\* exactly when the last point left the world or all 360 steps were used
\* without a hit.
C23_PathAndImpact ==
    last.op = "step_projectile" =>
        LET result == last.result
            n == Len(result.path)
        IN  /\ 1 <= n /\ n <= max_projectile_steps
            /\ \A i \in 1..(n - 1) :
                   /\ ~LeftWorld(result.path[i])
                   /\ ~RegistersHit(last.shooter, result.path[i])
            /\ ~IsNone(result.impact) =>
                   /\ Val(result.impact) = result.path[n]
                   /\ ~LeftWorld(result.path[n])
                   /\ RegistersHit(last.shooter, result.path[n])
            /\ IsNone(result.impact) <=>
                   \/ LeftWorld(result.path[n])
                   \/ /\ n = max_projectile_steps
                      /\ ~RegistersHit(last.shooter, result.path[n])

\* C23 witnesses: a shot with an impact after more than one step, a shot that
\* left the world, and a shot that used all 360 steps inside the world
\* without a hit.
C23_Witness ==
    /\ last.op = "step_projectile"
    /\ ~IsNone(last.result.impact)
    /\ Len(last.result.path) > 1

C23_WitnessLeftWorld ==
    /\ last.op = "step_projectile"
    /\ IsNone(last.result.impact)
    /\ LeftWorld(last.result.path[Len(last.result.path)])

C23_WitnessAllSteps ==
    /\ last.op = "step_projectile"
    /\ IsNone(last.result.impact)
    /\ Len(last.result.path) = max_projectile_steps
    /\ ~LeftWorld(last.result.path[max_projectile_steps])

-----------------------------------------------------------------------------
(* Claims about the effects of a shot on the tanks.                        *)

\* The last step changed the terrain through a game action: a shot's effects
\* were applied, or a building came down and its collapse was handled.
TerrainActionDone ==
    \/ last.op = "fire"
    \/ /\ last.op = "collapse_tick"
       /\ \E k \in DOMAIN buildings :
              buildings[k].collapsed /\ ~last.buildings[k].collapsed

\* C24 as stated: after apply_shot_effects and after handle_building_collapse
\* every living tank stands on the terrain surface of its column: its x is
\* unchanged, 0 <= y < height and y = surface_y(x); settling it again changes
\* nothing.
C24_TanksOnSurface ==
    TerrainActionDone =>
        \A t \in DOMAIN tanks :
            Alive(tanks[t]) =>
                /\ tanks[t].x = last.tanks[t].x
                /\ 0 <= tanks[t].y /\ tanks[t].y < settings.height
                /\ Some(tanks[t].y) = SurfaceY(height_map, settings, tanks[t].x)
                /\ SettleTank(height_map, settings, tanks[t]) = tanks[t]

\* The part of C24 that holds: x unchanged, y inside the world and no lower
\* than the surface row, and a second settling changes nothing.
C24_TanksSettled ==
    TerrainActionDone =>
        \A t \in DOMAIN tanks :
            Alive(tanks[t]) =>
                /\ tanks[t].x = last.tanks[t].x
                /\ 0 <= tanks[t].y /\ tanks[t].y < settings.height
                /\ tanks[t].y <= Val(SurfaceY(height_map, settings, tanks[t].x))
                /\ SettleTank(height_map, settings, tanks[t]) = tanks[t]

\* The tanks that the last step killed: alive before it, destroyed after.
KilledByLast == { t \in DOMAIN tanks : Alive(last.tanks[t]) /\ ~Alive(tanks[t]) }

\* C25: after apply_shot_effects the result's fatal_hit is true exactly when
\* some tank that was alive before the call is destroyed after it, by the
\* direct hit or by the splash; fatal_tank is then one of those tanks, and it
\* is None otherwise.
C25_FatalHitIffKilled ==
    last.op = "fire" =>
        /\ last.result.fatal_hit <=> KilledByLast # {}
        /\ KilledByLast # {} => last.result.fatal_tank \in KilledByLast
        /\ KilledByLast = {} => last.result.fatal_tank = 0

\* A shot whose splash, not a direct hit, destroyed a tank.
C25_Witness ==
    /\ last.op = "fire"
    /\ last.result.hit_tank = 0
    /\ last.result.fatal_hit
    /\ KilledByLast # {}

\* A direct hit that destroyed its tank.
C25_WitnessDirect ==
    /\ last.op = "fire"
    /\ last.result.hit_tank # 0
    /\ last.result.fatal_tank = last.result.hit_tank
    /\ KilledByLast = {last.result.hit_tank}

\* A shot that hurt a tank without destroying it.
C25_WitnessNotFatal ==
    /\ last.op = "fire"
    /\ ~last.result.fatal_hit
    /\ \E t \in DOMAIN tanks : Alive(tanks[t]) /\ tanks[t].hp < last.tanks[t].hp

-----------------------------------------------------------------------------
(* Claims about the collapse timers.                                       *)

\* The building k is in the list that the last tick returned.
ReturnedNow(k) ==
    /\ last.op = "update_collapsing_buildings"
    /\ \E i \in 1..Len(last.returned) : last.returned[i] = k

\* C26: a building scheduled with delay d is returned by
\* update_collapsing_buildings on the first tick at which the dt accumulated
\* since it was scheduled reaches d (a building returned has accumulated at
\* least d, a building still pending after a tick has accumulated less than
\* d), it is returned at most once and has collapsed exactly when it was
\* returned; with ticks of dt > 0 coming every pending building collapses in
\* the end; each building goes by its own timer.
C26_CollapseOnTime ==
    /\ [](\A k \in 1..2 :
             /\ ReturnedNow(k) => last.elapsed[k] >= last.delay[k]
             /\ InPending(k) /\ last.ticked[k] => last.elapsed[k] < last.delay[k]
             /\ last.times[k] <= 1
             /\ buildings[k].collapsed <=> last.times[k] = 1)
    /\ \A k \in 1..2 : InPending(k) ~> buildings[k].collapsed

\* Both buildings were pending together; the first has been returned after
\* more than one tick and the second is still waiting on its longer timer.
C26_Witness ==
    /\ ReturnedNow(1)
    /\ last.delay[1] > 0
    /\ last.elapsed[1] >= last.delay[1]
    /\ \E dt \in CollapseSteps : last.elapsed[1] - dt > 0
    /\ InPending(2) /\ last.ticked[2]
    /\ ~buildings[2].collapsed

\* A building scheduled with the delay 0 comes down on the first tick.
C26_WitnessNoDelay ==
    \E k \in 1..2 : ReturnedNow(k) /\ last.delay[k] = 0

\* The last step was a shot whose effects ran the splash pass: an impact
\* point and no tank hit directly.
SplashPassDone ==
    /\ last.op = "fire"
    /\ last.result.hit_tank = 0
    /\ ~IsNone(last.result.impact)

\* The square of the distance between the tank t, where it stood before the
\* shot, and the impact point.
ImpactDistance2(t) ==
    (last.tanks[t].x * Scale - Val(last.result.impact)[1])
        * (last.tanks[t].x * Scale - Val(last.result.impact)[1])
    + (last.tanks[t].y * Scale - Val(last.result.impact)[2])
        * (last.tanks[t].y * Scale - Val(last.result.impact)[2])

\* C27: in the splash pass the tanks whose hp changes are exactly the living
\* tanks within explosion_radius of the impact point, the shooter included;
\* each loses at least 1 and at most Game.damage hp: the full damage (or all
\* the hp it has left) within 0.5 of the impact, no more than six tenths of
\* the damage beyond; a tank farther than explosion_radius keeps its hp.
C27_SplashReach ==
    SplashPassDone =>
        \A t \in DOMAIN tanks :
            LET lost == last.tanks[t].hp - tanks[t].hp
                near == Alive(last.tanks[t])
                        /\ ImpactDistance2(t) <= explosion_radius * explosion_radius
            IN  /\ lost # 0 <=> near
                /\ near => 1 <= lost /\ lost <= game.damage
                /\ near /\ ImpactDistance2(t) <= 500 * 500
                       => lost = Min(last.tanks[t].hp, game.damage)
                /\ near /\ ImpactDistance2(t) > 500 * 500
                       => lost <= Max(1, Trunc(game.damage * 6, 10))
                /\ ~near => tanks[t].hp = last.tanks[t].hp

\* A splash that hurt a tank beyond 0.5 of the impact while the other tank,
\* out of reach, kept its hp.
C27_Witness ==
    /\ SplashPassDone
    /\ \E t, u \in DOMAIN tanks :
           /\ Alive(last.tanks[t])
           /\ ImpactDistance2(t) > 500 * 500
           /\ ImpactDistance2(t) <= explosion_radius * explosion_radius
           /\ tanks[t].hp < last.tanks[t].hp
           /\ Alive(last.tanks[u])
           /\ ImpactDistance2(u) > explosion_radius * explosion_radius
           /\ tanks[u].hp = last.tanks[u].hp

\* A splash that hurt the tank that fired the shot.
C27_WitnessShooter ==
    /\ SplashPassDone
    /\ tanks[last.shooter].hp < last.tanks[last.shooter].hp

-----------------------------------------------------------------------------
(* Claims about the buildings under shots and ticks.                       *)

AllFloorsDestroyed(b) == \A i \in 1..Len(b.floors) : b.floors[i].destroyed

\* C28: under shots and ticks a building is unstable, in the pending list or
\* on a running collapse timer only when all of its floors are destroyed, and
\* it is scheduled at most once: it enters the pending list from a state in
\* which it was neither unstable nor collapsed, a shot leaves the timer of a
\* pending building as it is, and a collapsed building is never pending.
C28_ScheduledWhenGutted ==
    /\ [](\A k \in DOMAIN buildings :
             /\ (buildings[k].unstable \/ InPending(k)
                    \/ buildings[k].collapse_timer > 0)
                   => AllFloorsDestroyed(buildings[k])
             /\ InPending(k) => buildings[k].unstable /\ ~buildings[k].collapsed
             /\ Cardinality({ i \in 1..Len(pending_collapses) :
                                 pending_collapses[i] = k }) <= 1)
    /\ [][\A k \in DOMAIN buildings :
             /\ InPending(k)' /\ ~InPending(k)
                   => /\ ~buildings[k].unstable /\ ~buildings[k].collapsed
                      /\ last'.op = "fire"
             /\ InPending(k) /\ last'.op = "fire"
                   => /\ InPending(k)'
                      /\ buildings'[k].collapse_timer = buildings[k].collapse_timer
             /\ buildings[k].collapsed => ~InPending(k)']_vars

\* A shot has gutted a building that still had an intact floor, and the
\* building waits for its collapse.
C28_Witness ==
    /\ last.op = "fire"
    /\ \E k \in DOMAIN buildings :
           /\ ~AllFloorsDestroyed(last.buildings[k])
           /\ AllFloorsDestroyed(buildings[k])
           /\ InPending(k)
           /\ buildings[k].unstable
           /\ buildings[k].collapse_timer > 0

\* A shot was fired while a building was waiting for its collapse.
C28_WitnessShotWhilePending ==
    /\ last.op = "fire"
    /\ last.n = 2
    /\ \E k \in DOMAIN buildings : InPending(k) /\ last.buildings[k].unstable

-----------------------------------------------------------------------------
(* Claims about the turns and the winner of a session.                     *)

\* The session calls that end a turn: a move that succeeded, a resolved
\* projectile, a completed superpower.
TurnEnding(call) ==
    \/ call.op = "attempt_move" /\ call.ret
    \/ call.op = "resolve_projectile"
    \/ call.op = "complete_superpower"

\* C29: current_player is always 0 or 1; a successful attempt_move, a
\* resolve_projectile and a complete_superpower each hand the turn to the
\* other player, and no other step changes it: not a failed attempt_move, not
\* begin_projectile, not update_projectile.
C29_TurnsAlternate ==
    /\ [](session.current_player \in {0, 1})
    /\ [][/\ TurnEnding(last')
               => session'.current_player = 1 - session.current_player
          /\ ~TurnEnding(last')
               => session'.current_player = session.current_player]_vars

\* The second player has just ended a turn with a move and the first player
\* is on.
C29_Witness ==
    /\ last.op = "attempt_move"
    /\ last.ret
    /\ last.n >= 2
    /\ session.current_player = 0

\* A move that failed, the turn staying where it was.
C29_WitnessFailedMove ==
    /\ last.op = "attempt_move"
    /\ ~last.ret

\* A projectile resolved after a flight of more than one frame.
C29_WitnessResolved ==
    /\ last.op = "resolve_projectile"
    /\ last.n >= 3

\* C30: once the winner is a tank, no step of the session makes the other
\* tank the winner: the winner stays that tank, or there is no winner any
\* more, that tank being destroyed too.
C30_WinnerNeverSwaps ==
    [][session.winner # 0 =>
          \/ session'.winner = session.winner
          \/ /\ session'.winner = 0
             /\ ~Alive(tanks'[session.winner])]_vars

\* A move made after the end of the match, the winner staying the winner.
C30_Witness ==
    /\ last.op = "attempt_move"
    /\ last.ret
    /\ "won" \in DOMAIN last
    /\ last.won # 0
    /\ session.winner = last.won
    /\ \E t \in DOMAIN tanks : ~Alive(tanks[t])

\* A shot resolved with both tanks destroyed and the match left without a
\* winner.
C30_WitnessNoWinner ==
    /\ last.op = "resolve_projectile"
    /\ last.n >= 3
    /\ session.winner = 0
    /\ \A t \in DOMAIN tanks : ~Alive(tanks[t])

\* A shot begun after the end of the match.
C30_WitnessShotAfterEnd ==
    /\ last.op = "begin_projectile"
    /\ "won" \in DOMAIN last
    /\ last.won # 0

=============================================================================
